---- MODULE Spec2Model ----
(***************************************************************************)
(* Grid-trading reconciliation engine (GridStrategy), its manager and the  *)
(* gateway book it works against.                                          *)
(*                                                                         *)
(* Units.  Prices are integers counted in half points, so that the mid     *)
(* price (bid + ask) / 2 of two quoted prices is an integer; a quoted      *)
(* price is a multiple of the symbol's point.  Volumes are integers        *)
(* counted in 0.01 lot.  Times are integers counted in seconds.            *)
(***************************************************************************)
EXTENDS Integers, Sequences, FiniteSets, TLC

VARIABLES
    active,      \* StrategyManager.active: magic -> GridStrategy object
    orders,      \* the gateway's pending orders, in ticket order
    positions,   \* the gateway's open positions, in ticket order
    nextTicket,  \* the next ticket the gateway hands out
    now,         \* time.time()
    scenario,    \* which family of configurations and market inputs is explored
    last,        \* what the most recent pass saw and did
    prev,        \* the pass before it, when the two ran back to back
    call,        \* the most recent direct application of a pure helper
    recenters,   \* magic -> the times of the engine's last two anchor recenters
    passes,      \* how many passes have run
    synced,      \* what the most recent sync of the manager found and did
    run          \* the runner's loop: its parameters, counters and position

vars == <<active, orders, positions, nextTicket, now, scenario, last, prev, call, recenters,
          passes, synced, run>>

\* An optional value (Python's None or a value) is a sequence of at most one element.
None == <<>>

Some(x) == <<x>>

Val(o) == o[1]

(***************************************************************************)
(* Arithmetic helpers: Python's abs, min, max and round.                   *)
(***************************************************************************)
\* F applied to a value computed once.
Bind(value, F(_)) == F(value)

Abs(x) == IF x < 0 THEN -x ELSE x

Min(a, b) == IF a <= b THEN a ELSE b

Max(a, b) == IF a >= b THEN a ELSE b

\* round(n / d) for d > 0: nearest integer, a tie goes to the even one.
RoundDiv(n, d) ==
    LET q == n \div d
        r == n % d
    IN  IF 2 * r < d THEN q
        ELSE IF 2 * r > d THEN q + 1
        ELSE IF q % 2 = 0 THEN q ELSE q + 1

\* round(n / d) for any d # 0.
Round(n, d) == IF d > 0 THEN RoundDiv(n, d) ELSE RoundDiv(-n, -d)

(***************************************************************************)
(* Symbol information cached by _cache_symbol_info.                        *)
(***************************************************************************)
\* One point (10^-digits) in price units.
Point == 2

\* round(price, digits)
NormalizePrice(s, price) == RoundDiv(price, s.point) * s.point

\* Rounds a volume given as the fraction num/den to the volume step and
\* clamps it to [vol_min, vol_max].
NormalizeVolume(s, num, den) ==
    LET vol == IF s.vol_step > 0
               THEN RoundDiv(num, den * s.vol_step) * s.vol_step
               ELSE num \div den
    IN  Max(s.vol_min, Min(s.vol_max, vol))

(***************************************************************************)
(* GridMath                                                                *)
(***************************************************************************)
\* _get_grid_level snapping to the grid line below instead of the nearest.
GetGridLevelFloor(s, price, anchor) ==
    IF s.step <= 0 THEN price
    ELSE anchor + ((price - anchor) \div s.step) * s.step

GetGridLevel(s, price, anchor) ==
    IF s.step <= 0 THEN price
    ELSE LET k == Round(price - anchor, s.step)
         IN  anchor + k * s.step

(***************************************************************************)
(* RiskGate                                                                *)
(***************************************************************************)
\* _allow_side with the one-sided totals taken from the positions alone.
AllowSideNoPending(s, side, long_vol, short_vol, pending_buy_vol, pending_sell_vol, net_vol) ==
    IF s.max_net_vol = None THEN TRUE
    ELSE LET cap == Val(s.max_net_vol) IN
         IF s.mode = "neutral" THEN
             IF side = "buy" THEN Abs(net_vol + s.lot) <= cap
             ELSE Abs(net_vol - s.lot) <= cap
         ELSE IF s.mode = "long" THEN
             IF side = "buy" THEN (long_vol + s.lot) <= cap
             ELSE TRUE
         ELSE IF s.mode = "short" THEN
             IF side = "sell" THEN (short_vol + s.lot) <= cap
             ELSE TRUE
         ELSE TRUE

\* _allow_side with the neutral test made on the net volume before the order.
AllowSideNoLot(s, side, long_vol, short_vol, pending_buy_vol, pending_sell_vol, net_vol) ==
    IF s.max_net_vol = None THEN TRUE
    ELSE LET cap == Val(s.max_net_vol) IN
         IF s.mode = "neutral" THEN Abs(net_vol) <= cap
         ELSE IF s.mode = "long" THEN
             LET total_long == long_vol + pending_buy_vol IN
             IF side = "buy" THEN (total_long + s.lot) <= cap
             ELSE TRUE
         ELSE IF s.mode = "short" THEN
             LET total_short == short_vol + pending_sell_vol IN
             IF side = "sell" THEN (total_short + s.lot) <= cap
             ELSE TRUE
         ELSE TRUE

AllowSide(s, side, long_vol, short_vol, pending_buy_vol, pending_sell_vol, net_vol) ==
    IF s.max_net_vol = None THEN TRUE
    ELSE LET cap == Val(s.max_net_vol) IN
         IF s.mode = "neutral" THEN
             IF side = "buy" THEN Abs(net_vol + s.lot) <= cap
             ELSE Abs(net_vol - s.lot) <= cap
         ELSE IF s.mode = "long" THEN
             LET total_long == long_vol + pending_buy_vol IN
             IF side = "buy" THEN (total_long + s.lot) <= cap
             ELSE TRUE
         ELSE IF s.mode = "short" THEN
             LET total_short == short_vol + pending_sell_vol IN
             IF side = "sell" THEN (total_short + s.lot) <= cap
             ELSE TRUE
         ELSE TRUE

(***************************************************************************)
(* Gateway vocabulary: order and position types, order-send return codes.  *)
(* A null order-send result is the return code RC_NONE.                    *)
(***************************************************************************)
BUY_LIMIT == "BUY_LIMIT"
SELL_LIMIT == "SELL_LIMIT"
POSITION_BUY == "BUY"
POSITION_SELL == "SELL"

RC_NONE == 0
TRADE_RETCODE_PLACED == 10008
TRADE_RETCODE_DONE == 10009
RC_REQUOTE == 10004
RC_INVALID_REQUEST == 10013
RC_INVALID_VOLUME == 10014
\* a return code _handle_order_error has no branch of its own for
RC_REJECT == 10006
RC_MARKET_CLOSED == 10018
RC_CLIENT_DISABLES_AT == 10027
RC_UNSUPPORTED_FILLING == 10030

IsDone(rc) == rc \in {TRADE_RETCODE_DONE, TRADE_RETCODE_PLACED}

\* The gateway's answer to the i-th order_send of a pass: the script lists the
\* answers in the order the requests are sent; past its end every request is done.
Resp(script, i) == IF i <= Len(script) THEN script[i] ELSE TRADE_RETCODE_DONE

(***************************************************************************)
(* _handle_order_error                                                     *)
(***************************************************************************)
PauseMarketClosed == 300
PauseRequote == 1
PauseOther == 5
PauseNoTick == 5

\* _handle_order_error without the branches that disable the engine.
HandleOrderErrorPauseOnly(s, retcode, t) ==
    IF retcode = RC_MARKET_CLOSED THEN [s EXCEPT !.pause_until = t + PauseMarketClosed]
    ELSE IF retcode = RC_REQUOTE THEN [s EXCEPT !.pause_until = t + PauseRequote]
    ELSE [s EXCEPT !.pause_until = t + PauseOther]

HandleOrderError(s, retcode, t) ==
    IF retcode = RC_MARKET_CLOSED THEN [s EXCEPT !.pause_until = t + PauseMarketClosed]
    ELSE IF retcode = RC_CLIENT_DISABLES_AT THEN [s EXCEPT !.enabled = FALSE]
    ELSE IF retcode = RC_REQUOTE THEN [s EXCEPT !.pause_until = t + PauseRequote]
    ELSE IF retcode = RC_INVALID_REQUEST THEN [s EXCEPT !.enabled = FALSE]
    ELSE IF retcode = RC_INVALID_VOLUME THEN [s EXCEPT !.enabled = FALSE]
    ELSE [s EXCEPT !.pause_until = t + PauseOther]

(***************************************************************************)
(* _place_buy_order / _place_sell_order.  A request record says what was   *)
(* sent and what the gateway answered; `i` counts the requests of the pass.*)
(* The result: ok (a ticket was returned), the engine, the requests sent.  *)
(***************************************************************************)
\* A request sent to the gateway with its answer `rc`.
Request(op, type, s, price, volume, ticket, sl, rc) ==
    [op |-> op, type |-> type, symbol |-> s.symbol, magic |-> s.magic,
     price |-> price, volume |-> volume, ticket |-> ticket, sl |-> sl, rc |-> rc]

LimitRequest(s, type, price, filling, rc) ==
    [op |-> "pending", type |-> type, symbol |-> s.symbol, magic |-> s.magic,
     price |-> NormalizePrice(s, price), volume |-> NormalizeVolume(s, s.lot, 1),
     ticket |-> 0, sl |-> 0, rc |-> rc, filling |-> filling]

\* A placement that sends the request again after every answer that is not
\* done.
RECURSIVE PlaceOrderResend(_, _, _, _, _, _, _)
PlaceOrderResend(s, type, price, script, i, retick, t) ==
    LET rc == Resp(script, i)
        q == LimitRequest(s, type, price, TRUE, rc)
    IN  IF rc = RC_NONE THEN [ok |-> FALSE, s |-> s, reqs |-> <<q>>]
        ELSE IF IsDone(rc) THEN [ok |-> TRUE, s |-> s, reqs |-> <<q>>]
        ELSE LET r == PlaceOrderResend(s, type, price, script, i + 1, retick, t)
             IN  [r EXCEPT !.reqs = <<q>> \o r.reqs]

\* The tail both placements share once the first answer `rc1` is in: the retry
\* without the filling flag, the retry after a requote, the error handler.
\* `retick` says whether the tick re-read before a requote retry succeeds.
\* `filling` of a request: whether it carries type_filling.
PlaceOrder(s, type, price, script, i, retick, t) ==
    LET rc1 == Resp(script, i)
        q1 == LimitRequest(s, type, price, TRUE, rc1)
    IN  IF rc1 = RC_NONE THEN [ok |-> FALSE, s |-> s, reqs |-> <<q1>>]
        ELSE
        LET refill == (rc1 = RC_UNSUPPORTED_FILLING)
            rc2 == IF refill THEN Resp(script, i + 1) ELSE rc1
            sent2 == IF refill THEN <<q1, LimitRequest(s, type, price, FALSE, rc2)>>
                     ELSE <<q1>>
            i2 == i + Len(sent2)
        IN  IF rc2 = RC_NONE THEN [ok |-> FALSE, s |-> s, reqs |-> sent2]
            ELSE IF IsDone(rc2) THEN [ok |-> TRUE, s |-> s, reqs |-> sent2]
            ELSE IF rc2 = RC_REQUOTE /\ retick THEN
                LET rc3 == Resp(script, i2)
                    sent3 == Append(sent2, LimitRequest(s, type, price, ~refill, rc3))
                IN  IF rc3 = RC_NONE THEN [ok |-> FALSE, s |-> s, reqs |-> sent3]
                    ELSE IF IsDone(rc3) THEN [ok |-> TRUE, s |-> s, reqs |-> sent3]
                    ELSE [ok |-> FALSE, s |-> HandleOrderError(s, rc3, t), reqs |-> sent3]
            ELSE [ok |-> FALSE, s |-> HandleOrderError(s, rc2, t), reqs |-> sent2]

PlaceBuyOrder(s, price, script, i, retick, t) ==
    PlaceOrder(s, BUY_LIMIT, price, script, i, retick, t)

\* The sell path re-reads no tick before its requote retry.
PlaceSellOrder(s, price, script, i, t) ==
    PlaceOrder(s, SELL_LIMIT, price, script, i, TRUE, t)

(***************************************************************************)
(* GridStrategy.__init__ and _cache_symbol_info.  A configuration entry is *)
(* a record holding the keys the file gives; Get is dict.get.  Prices of a *)
(* configuration are given in points (the modelled symbols have digits 0). *)
(***************************************************************************)
Get(cfg, key, default) == IF key \in DOMAIN cfg THEN cfg[key] ELSE default

\* cfg.get(key) of a key whose default is None
Opt(cfg, key) == IF key \in DOMAIN cfg THEN Some(cfg[key]) ELSE None

P(x) == x * Point

DefaultWindow == 6
DefaultMaxP == 999999
DefaultRecenterSteps == 3
DefaultRecenterCooldown == 30
DefaultExtremeCooldown == 30
DefaultMaxNewOrders == 10
DefaultHedgeTranches == 3
DefaultHedgeCooldown == 20
DefaultHedgeVolLookback == 300
DefaultHedgeVolWindow == 20
DefaultHedgeVolBase == 200
DefaultHedgeVolMult == 3
DefaultAtrPeriod == 14
DefaultAtrUpdateSeconds == 5
\* atr_smooth = 0.1, atr_change_threshold = 0.01, min_step_mult = 0.5 and
\* max_step_mult = 3.0 as fractions
DefaultAtrSmooth == [num |-> 1, den |-> 10]
DefaultAtrChangeThreshold == [num |-> 1, den |-> 100]
DefaultMinStepMult == [num |-> 1, den |-> 2]
DefaultMaxStepMult == [num |-> 3, den |-> 1]
DefaultBeBufferPoints == 20
\* hedge_fraction = 0.3333 and hedge_vol_quantile = 0.90 as fractions
DefaultHedgeFraction == [num |-> 3333, den |-> 10000]
DefaultHedgeVolQuantile == [num |-> 9, den |-> 10]

\* mt5.symbol_info of the modelled symbols
SymbolInfo(symbol) ==
    [point |-> Point, stop_level |-> 0, vol_min |-> 1, vol_max |-> 10000, vol_step |-> 1]

\* Every key of the configuration entry is a keyword of the constructor.  The
\* smoothed ATR (_last_atr_value) is kept as a fraction num/den of price units.
NewStrategy(cfg) ==
    LET window == Get(cfg, "window", DefaultWindow)
        info == SymbolInfo(cfg.symbol)
    IN  [symbol |-> cfg.symbol,
         base_step |-> cfg.step,
         step |-> cfg.step,
         tp_dist |-> cfg.tp_dist,
         lot |-> cfg.lot,
         magic |-> cfg.magic,
         window |-> window,
         min_price |-> Get(cfg, "min_p", 0),
         max_price |-> Get(cfg, "max_p", P(DefaultMaxP)),
         enabled |-> Get(cfg, "enabled", TRUE),
         pause_until |-> 0,
         mode |-> Get(cfg, "mode", "neutral"),
         buy_window |-> Get(cfg, "buy_window", window),
         sell_window |-> Get(cfg, "sell_window", window),
         out_of_range_action |-> Get(cfg, "out_of_range_action", "freeze"),
         anchor |-> Opt(cfg, "anchor"),
         recenter_steps |-> Get(cfg, "recenter_steps", DefaultRecenterSteps),
         recenter_cooldown |-> Get(cfg, "recenter_cooldown", DefaultRecenterCooldown),
         last_recenter_time |-> 0,
         max_net_vol |-> Opt(cfg, "max_net_vol"),
         max_spread_points |-> Opt(cfg, "max_spread_points"),
         extreme_cooldown |-> Get(cfg, "extreme_cooldown", DefaultExtremeCooldown),
         max_new_orders_per_update |-> Get(cfg, "max_new_orders_per_update", DefaultMaxNewOrders),
         hedge_enabled |-> Get(cfg, "hedge_enabled", FALSE),
         hedge_fraction |-> Get(cfg, "hedge_fraction", DefaultHedgeFraction),
         hedge_tranches |-> Get(cfg, "hedge_tranches", DefaultHedgeTranches),
         hedge_entry_steps |-> Get(cfg, "hedge_entry_steps", 1),
         hedge_exit_steps |-> Get(cfg, "hedge_exit_steps", 1),
         hedge_cooldown |-> Get(cfg, "hedge_cooldown", DefaultHedgeCooldown),
         max_gross_vol |-> Opt(cfg, "max_gross_vol"),
         hedge_vol_lookback |-> Get(cfg, "hedge_vol_lookback", DefaultHedgeVolLookback),
         hedge_vol_window |-> Get(cfg, "hedge_vol_window", DefaultHedgeVolWindow),
         hedge_vol_quantile |-> Get(cfg, "hedge_vol_quantile", DefaultHedgeVolQuantile),
         hedge_vol_base |-> Get(cfg, "hedge_vol_base", DefaultHedgeVolBase),
         hedge_vol_mult |-> Get(cfg, "hedge_vol_mult", DefaultHedgeVolMult),
         be_trigger_steps |-> Get(cfg, "be_trigger_steps", 1),
         be_buffer_points |-> Get(cfg, "be_buffer_points", DefaultBeBufferPoints),
         last_hedge_time |-> 0,
         last_hedge_entry_price |-> None,
         use_atr |-> Get(cfg, "use_atr", FALSE),
         atr_period |-> Get(cfg, "atr_period", DefaultAtrPeriod),
         atr_factor |-> Get(cfg, "atr_factor", 1),
         atr_update_seconds |-> Get(cfg, "atr_update_seconds", DefaultAtrUpdateSeconds),
         atr_smooth |-> Get(cfg, "atr_smooth", DefaultAtrSmooth),
         atr_change_threshold |-> Get(cfg, "atr_change_threshold", DefaultAtrChangeThreshold),
         min_step_mult |-> Get(cfg, "min_step_mult", DefaultMinStepMult),
         max_step_mult |-> Get(cfg, "max_step_mult", DefaultMaxStepMult),
         last_atr_value |-> None,
         last_atr_time |-> 0,
         rates_cache_ts |-> 0,
         rates_cache |-> None,
         point |-> info.point,
         stop_level |-> info.stop_level,
         vol_min |-> info.vol_min,
         vol_max |-> info.vol_max,
         vol_step |-> info.vol_step]

(***************************************************************************)
(* ATR and the adaptive step.  m15 is what copy_rates_from_pos returns for *)
(* atr_period + 1 bars of M15 (None: no data), a sequence of bars with     *)
(* high, low and close.                                                    *)
(***************************************************************************)
\* The true range of bar i > 1: the largest of high - low, |high - close
\* before| and |low - close before|.
TrueRange(rates, i) ==
    Max(Max(rates[i].high - rates[i].low, Abs(rates[i].high - rates[i - 1].close)),
        Abs(rates[i].low - rates[i - 1].close))

RECURSIVE SumTrueRange(_, _)
SumTrueRange(rates, i) ==
    IF i < 2 THEN 0 ELSE TrueRange(rates, i) + SumTrueRange(rates, i - 1)

\* _calculate_atr at time t: the cached value while it is younger than
\* atr_update_seconds; None without enough bars; else the mean true range,
\* smoothed into the value before it: last * (1 - smooth) + raw * smooth.
CalculateAtr(s, m15, t) ==
    IF t - s.last_atr_time < s.atr_update_seconds
    THEN [atr |-> s.last_atr_value, s |-> s]
    ELSE IF m15 = None \/ Len(Val(m15)) < s.atr_period + 1
    THEN [atr |-> None, s |-> s]
    ELSE
    Bind([num |-> SumTrueRange(Val(m15), Len(Val(m15))), den |-> Len(Val(m15)) - 1],
         LAMBDA raw_atr :
    Bind(IF s.last_atr_value = None THEN raw_atr
         ELSE [num |-> Val(s.last_atr_value).num * (s.atr_smooth.den - s.atr_smooth.num)
                           * raw_atr.den
                       + raw_atr.num * s.atr_smooth.num * Val(s.last_atr_value).den,
               den |-> Val(s.last_atr_value).den * s.atr_smooth.den * raw_atr.den],
         LAMBDA value :
         [atr |-> Some(value),
          s |-> [s EXCEPT !.last_atr_value = Some(value), !.last_atr_time = t]]))

\* An adaptive step that takes the candidate as it comes, within no range.
AtrStepUnclamped(s, m15, t) ==
    IF ~s.use_atr THEN [s |-> s, new_step |-> None, raised |-> FALSE]
    ELSE
    Bind(CalculateAtr(s, m15, t), LAMBDA c :
    IF c.atr = None \/ Val(c.atr).num = 0
    THEN [s |-> c.s, new_step |-> None, raised |-> FALSE]
    ELSE
    Bind(RoundDiv(Val(c.atr).num * s.atr_factor, Val(c.atr).den * Point) * Point,
         LAMBDA new_step :
    IF s.step = 0 THEN [s |-> c.s, new_step |-> Some(new_step), raised |-> TRUE]
    ELSE IF Abs(new_step - s.step) * s.atr_change_threshold.den * (IF s.step < 0 THEN -1 ELSE 1)
              > s.atr_change_threshold.num * Abs(s.step)
    THEN [s |-> [c.s EXCEPT !.step = new_step], new_step |-> Some(new_step), raised |-> FALSE]
    ELSE [s |-> c.s, new_step |-> Some(new_step), raised |-> FALSE]))

\* The adaptive step of update (use_atr): the candidate is the ATR times
\* atr_factor rounded to 5 decimals, the point of the modelled symbols; it
\* replaces the step when it differs from it by more than
\* atr_change_threshold of the step, cut to base_step * min_step_mult from
\* below after base_step * max_step_mult from above.  The configurations
\* followed keep both products whole.  new_step is the candidate (None: no
\* ATR); raised: the division by a step of 0.
AtrStep(s, m15, t) ==
    IF ~s.use_atr THEN [s |-> s, new_step |-> None, raised |-> FALSE]
    ELSE
    Bind(CalculateAtr(s, m15, t), LAMBDA c :
    IF c.atr = None \/ Val(c.atr).num = 0
    THEN [s |-> c.s, new_step |-> None, raised |-> FALSE]
    ELSE
    Bind(RoundDiv(Val(c.atr).num * s.atr_factor, Val(c.atr).den * Point) * Point,
         LAMBDA new_step :
    IF s.step = 0 THEN [s |-> c.s, new_step |-> Some(new_step), raised |-> TRUE]
    ELSE IF Abs(new_step - s.step) * s.atr_change_threshold.den * (IF s.step < 0 THEN -1 ELSE 1)
              > s.atr_change_threshold.num * Abs(s.step)
    THEN LET min_s == (s.base_step * s.min_step_mult.num) \div s.min_step_mult.den
             max_s == (s.base_step * s.max_step_mult.num) \div s.max_step_mult.den
         IN  [s |-> [c.s EXCEPT !.step = Max(min_s, Min(max_s, new_step))],
              new_step |-> Some(new_step), raised |-> FALSE]
    ELSE [s |-> c.s, new_step |-> Some(new_step), raised |-> FALSE]))

(***************************************************************************)
(* Anchor                                                                  *)
(***************************************************************************)
InitAnchorIfNeeded(s, mid_price) ==
    IF s.anchor = None
    THEN LET base0 == Round(mid_price, s.step) * s.step
         IN  [s EXCEPT !.anchor = Some(NormalizePrice(s, base0))]
    ELSE s

\* _maybe_recenter without the cooldown test.
MaybeRecenterNoCooldown(s, mid_price, t) ==
    IF Abs(mid_price - Val(s.anchor)) < s.recenter_steps * s.step
    THEN [s |-> s, moved |-> FALSE]
    ELSE LET new_anchor == GetGridLevel(s, mid_price, Val(s.anchor))
         IN  [s |-> [s EXCEPT !.anchor = Some(NormalizePrice(s, new_anchor)),
                              !.last_recenter_time = t],
              moved |-> TRUE]

\* The engine after _maybe_recenter, and whether the anchor was moved.
MaybeRecenter(s, mid_price, t) ==
    IF t - s.last_recenter_time < s.recenter_cooldown THEN [s |-> s, moved |-> FALSE]
    \* abs((mid_price - anchor) / step) < recenter_steps, for step > 0
    ELSE IF Abs(mid_price - Val(s.anchor)) < s.recenter_steps * s.step
    THEN [s |-> s, moved |-> FALSE]
    ELSE LET new_anchor == GetGridLevel(s, mid_price, Val(s.anchor))
         IN  [s |-> [s EXCEPT !.anchor = Some(NormalizePrice(s, new_anchor)),
                              !.last_recenter_time = t],
              moved |-> TRUE]

(***************************************************************************)
(* Sequence helpers                                                        *)
(***************************************************************************)
Range(seq) == {seq[i] : i \in DOMAIN seq}

\* seq[lo] + ... + seq[hi], by halves
RECURSIVE SumFrom(_, _, _)
SumFrom(seq, lo, hi) ==
    IF lo > hi THEN 0
    ELSE IF lo = hi THEN seq[lo]
    ELSE LET m == (lo + hi) \div 2
         IN  SumFrom(seq, lo, m) + SumFrom(seq, m + 1, hi)

\* sum(seq)
SumSeq(seq) == SumFrom(seq, 1, Len(seq))

\* seq[:n]
Take(seq, n) == SubSeq(seq, 1, Min(Max(n, 0), Len(seq)))

\* seq[-n:] for n >= 1
LastN(seq, n) == SubSeq(seq, Max(1, Len(seq) - n + 1), Len(seq))

\* list.sort(reverse=True)
RECURSIVE InsertDesc(_, _)
InsertDesc(x, seq) ==
    IF seq = <<>> THEN <<x>>
    ELSE IF x >= Head(seq) THEN <<x>> \o seq
    ELSE <<Head(seq)>> \o InsertDesc(x, Tail(seq))

RECURSIVE SortDesc(_)
SortDesc(seq) == IF seq = <<>> THEN <<>> ELSE InsertDesc(Head(seq), SortDesc(Tail(seq)))

(***************************************************************************)
(* _calc_exposure                                                          *)
(***************************************************************************)
VolumeOf(my_positions, type) ==
    SumSeq([i \in DOMAIN my_positions |->
               IF my_positions[i].type = type THEN my_positions[i].volume ELSE 0])

PendingVolumeOf(my_orders, type) ==
    SumSeq([i \in DOMAIN my_orders |->
               IF my_orders[i].type = type THEN my_orders[i].volume_current ELSE 0])

CalcExposure(my_positions, my_orders) ==
    LET long_vol == VolumeOf(my_positions, POSITION_BUY)
        short_vol == VolumeOf(my_positions, POSITION_SELL)
        pending_buy_vol == PendingVolumeOf(my_orders, BUY_LIMIT)
        pending_sell_vol == PendingVolumeOf(my_orders, SELL_LIMIT)
    IN  [long_vol |-> long_vol, short_vol |-> short_vol,
         pending_buy_vol |-> pending_buy_vol, pending_sell_vol |-> pending_sell_vol,
         net_vol |-> (long_vol + pending_buy_vol) - (short_vol + pending_sell_vol)]

(***************************************************************************)
(* Target grid (update, step 2)                                            *)
(***************************************************************************)
SearchBuffer == 5

\* The buy targets laid out from the first level below the anchor.
TargetBuysBelowAnchor(s, tick, mid_price) ==
    IF ~(s.min_price <= mid_price /\ mid_price <= s.max_price) THEN <<>>
    ELSE IF s.mode \notin {"neutral", "long"} THEN <<>>
    ELSE LET search_range_buy == s.buy_window + s.recenter_steps + SearchBuffer
             levels == [i \in 1 .. Max(search_range_buy, 0) |->
                           NormalizePrice(s, Val(s.anchor) - (i * s.step))]
             Keep(level) == level < tick.ask /\ level >= s.min_price
         IN  Take(SelectSeq(levels, Keep), s.buy_window)

\* The buy targets laid out wherever the mid price is.
TargetBuysAnyRange(s, tick, mid_price) ==
    IF s.mode \notin {"neutral", "long"} THEN <<>>
    ELSE LET search_range_buy == s.buy_window + s.recenter_steps + SearchBuffer
             levels == [i \in 1 .. Max(search_range_buy, 0) |->
                           NormalizePrice(s, Val(s.anchor) - ((i - 1) * s.step))]
             Keep(level) == level < tick.ask /\ level >= s.min_price
         IN  Take(SelectSeq(levels, Keep), s.buy_window)

TargetBuys(s, tick, mid_price) ==
    IF ~(s.min_price <= mid_price /\ mid_price <= s.max_price) THEN <<>>
    ELSE IF s.mode \notin {"neutral", "long"} THEN <<>>
    ELSE LET search_range_buy == s.buy_window + s.recenter_steps + SearchBuffer
             levels == [i \in 1 .. Max(search_range_buy, 0) |->
                           NormalizePrice(s, Val(s.anchor) - ((i - 1) * s.step))]
             Keep(level) == level < tick.ask /\ level >= s.min_price
         IN  Take(SelectSeq(levels, Keep), s.buy_window)

\* The sell targets laid out whatever the bid.
TargetSellsAnyBid(s, tick, mid_price) ==
    IF ~(s.min_price <= mid_price /\ mid_price <= s.max_price) THEN <<>>
    ELSE IF s.mode \notin {"neutral", "short"} THEN <<>>
    ELSE LET search_range_sell == s.sell_window + s.recenter_steps + SearchBuffer
             levels == [i \in 1 .. Max(search_range_sell, 0) |->
                           NormalizePrice(s, Val(s.anchor) + ((i - 1) * s.step))]
             Keep(level) == level <= s.max_price
         IN  SortDesc(Take(SelectSeq(levels, Keep), s.sell_window))

TargetSells(s, tick, mid_price) ==
    IF ~(s.min_price <= mid_price /\ mid_price <= s.max_price) THEN <<>>
    ELSE IF s.mode \notin {"neutral", "short"} THEN <<>>
    ELSE LET search_range_sell == s.sell_window + s.recenter_steps + SearchBuffer
             levels == [i \in 1 .. Max(search_range_sell, 0) |->
                           NormalizePrice(s, Val(s.anchor) + ((i - 1) * s.step))]
             Keep(level) == level > tick.bid /\ level <= s.max_price
         IN  SortDesc(Take(SelectSeq(levels, Keep), s.sell_window))

(***************************************************************************)
(* Hedge gates.  A bar is [high, low, tick_volume]; a series is a sequence *)
(* of bars, most recent last.  A quantity the code holds as a float is     *)
(* kept as a fraction: thresholds are compared after cross-multiplying.    *)
(***************************************************************************)
M1Bars == 450
M1CacheSec == 10
GateSlack == 10

\* sorted(arr)[k], k counted from 0
Kth(arr, k) ==
    CHOOSE v \in Range(arr) :
        /\ Cardinality({i \in DOMAIN arr : arr[i] < v}) <= k
        /\ k < Cardinality({i \in DOMAIN arr : arr[i] <= v})

\* _quantile(arr, q) * q.den, for a non-empty arr
QuantileTimesDen(arr, q) ==
    IF q.num <= 0 THEN Kth(arr, 0) * q.den
    ELSE IF q.num >= q.den THEN Kth(arr, Len(arr) - 1) * q.den
    ELSE LET pos_num == (Len(arr) - 1) * q.num
             lo == pos_num \div q.den
             hi == Min(lo + 1, Len(arr) - 1)
             frac_num == pos_num - lo * q.den
         IN  Kth(arr, lo) * (q.den - frac_num) + Kth(arr, hi) * frac_num

VolatilityGate(s, rates) ==
    LET lb == s.hedge_vol_lookback
        win == s.hedge_vol_window
        q == s.hedge_vol_quantile
    IN  Bind(IF Len(rates) >= lb THEN LastN(rates, lb) ELSE rates, LAMBDA r :
        Bind([i \in DOMAIN r |-> r[i].high - r[i].low], LAMBDA ranges :
        IF Len(ranges) < win + GateSlack THEN FALSE
        ELSE \* cur >= thr, with cur = sum(ranges[-win:]) / win
             SumSeq(LastN(ranges, win)) * q.den >= QuantileTimesDen(ranges, q) * win))

VolumeGate(s, rates) ==
    LET base == s.hedge_vol_base
        win == s.hedge_vol_window
        mult == s.hedge_vol_mult
    IN  Bind([i \in DOMAIN rates |-> rates[i].tick_volume], LAMBDA v :
        IF Len(v) < base + win + GateSlack THEN FALSE
        ELSE Bind(SumSeq(LastN(v, win)), LAMBDA cur_sum :
             Bind(SumSeq(SubSeq(v, Len(v) - (base + win) + 1, Len(v) - win)), LAMBDA base_sum :
             IF base_sum <= 0 THEN FALSE
             \* cur >= mult * basev, with cur = cur_sum / win, basev = base_sum / base
             ELSE cur_sum * base >= mult * base_sum * win)))

(***************************************************************************)
(* The M1 series the gateway can return, by name.                          *)
(***************************************************************************)
Bar(range, tick_volume) == [high |-> range, low |-> 0, tick_volume |-> tick_volume]

\* `n` bars: calm ones, then `hot` bars of range `r` and tick volume `v` that end
\* `back` bars before the most recent one.
Series(n, hot, back, r, v) ==
    [i \in 1 .. n |-> IF i > n - back - hot /\ i <= n - back THEN Bar(r, v) ELSE Bar(2, 10)]

Bars(name) ==
    CASE name = "calm" -> Series(M1Bars, 0, 0, 2, 10)
      [] name = "burst" -> Series(M1Bars, 5, 0, 6, 40)
      [] name = "loud" -> Series(M1Bars, 5, 0, 1, 40)
      [] name = "partial" -> Series(320, 5, 0, 6, 40)
      [] name = "short" -> Series(300, 5, 0, 6, 40)

\* _get_m1_rates_cached(n=450, cache_sec=10); m1 is what the gateway returns if asked
GetM1RatesCached(s, m1, t) ==
    IF s.rates_cache # None /\ (t - s.rates_cache_ts) < M1CacheSec
    THEN [rates |-> s.rates_cache, s |-> s]
    ELSE IF m1 = None \/ Len(Bars(Val(m1))) < (M1Bars * 7) \div 10
    THEN [rates |-> None, s |-> s]
    ELSE [rates |-> m1, s |-> [s EXCEPT !.rates_cache = m1, !.rates_cache_ts = t]]

(***************************************************************************)
(* Hedge manager (update, between the anchor and the target grid).         *)
(* retick: whether the tick re-read by each hedge helper succeeds.         *)
(***************************************************************************)
FilterSeq(seq, type) == LET Is(x) == x.type = type IN SelectSeq(seq, Is)

\* A break-even step that moves the stop whatever stop the position has.
RECURSIVE BreakEvenLoopAnyStop(_, _, _, _, _, _, _)
BreakEvenLoopAnyStop(s, short_pos, tick, retick, script, i, reqs) ==
    IF short_pos = <<>> THEN reqs
    ELSE LET pos == Head(short_pos)
             sl == NormalizePrice(s, pos.price_open + s.be_buffer_points * s.point)
             send == /\ (pos.price_open - tick.ask) >= s.be_trigger_steps * s.step
                     /\ retick
                     /\ ~(tick.ask >= pos.price_open)
         IN  IF send
             THEN BreakEvenLoopAnyStop(s, Tail(short_pos), tick, retick, script, i + 1,
                      Append(reqs, Request("sltp", POSITION_SELL, s, pos.price_open, pos.volume,
                                           pos.ticket, sl, Resp(script, i))))
             ELSE BreakEvenLoopAnyStop(s, Tail(short_pos), tick, retick, script, i, reqs)

\* _move_sell_sl_to_breakeven for every short position that reached the trigger
RECURSIVE BreakEvenLoop(_, _, _, _, _, _, _)
BreakEvenLoop(s, short_pos, tick, retick, script, i, reqs) ==
    IF short_pos = <<>> THEN reqs
    ELSE LET pos == Head(short_pos)
             sl == NormalizePrice(s, pos.price_open + s.be_buffer_points * s.point)
             send == /\ (pos.price_open - tick.ask) >= s.be_trigger_steps * s.step
                     /\ retick
                     /\ ~(tick.ask >= pos.price_open)
                     /\ ~(pos.sl # 0 /\ pos.sl <= sl)
         IN  IF send
             THEN BreakEvenLoop(s, Tail(short_pos), tick, retick, script, i + 1,
                      Append(reqs, Request("sltp", POSITION_SELL, s, pos.price_open, pos.volume,
                                           pos.ticket, sl, Resp(script, i))))
             ELSE BreakEvenLoop(s, Tail(short_pos), tick, retick, script, i, reqs)

\* The position with the lowest ticket
Oldest(short_pos) ==
    CHOOSE p \in Range(short_pos) : \A o \in Range(short_pos) : p.ticket <= o.ticket

NoHedge ==
    [ran |-> FALSE, rates |-> None, vol_ok |-> FALSE, volm_ok |-> FALSE,
     sent |-> FALSE, opened |-> FALSE, volume |-> 0, closed |-> FALSE,
     long_vol |-> 0, short_vol |-> 0]

\* The entry gate opened by either of the two tests.
GateOkEither(vol_ok, volm_ok) == vol_ok \/ volm_ok

\* gate_ok = (vol_ok and volm_ok)
GateOk(vol_ok, volm_ok) == vol_ok /\ volm_ok

\* An entry with room whatever the net and the short volume.
HedgeRoomAlways(net_vol, cap, short_vol, den, hedge_target) == TRUE

\* net_vol >= cap and short_vol < hedge_target (hedge_target is a numerator over den)
HedgeRoom(net_vol, cap, short_vol, den, hedge_target) ==
    net_vol >= cap /\ short_vol * den < hedge_target

HedgeManager(s, my_positions, tick, retick, m1, script, i, t) ==
    IF ~(s.hedge_enabled /\ s.mode = "long" /\ s.max_net_vol # None)
    THEN [s |-> s, reqs |-> <<>>, hedge |-> NoHedge]
    ELSE
    LET cap == Val(s.max_net_vol)
        fn == s.hedge_fraction.num
        fd == s.hedge_fraction.den
        \* volumes below are numerators over the denominator den
        den == fd * Max(1, s.hedge_tranches)
        hedge_target == cap * fn * Max(1, s.hedge_tranches)
        tranche == cap * fn
        mid == (tick.bid + tick.ask) \div 2
    IN
    Bind(FilterSeq(my_positions, POSITION_SELL), LAMBDA short_pos :
    Bind(VolumeOf(my_positions, POSITION_BUY), LAMBDA long_vol :
    Bind(VolumeOf(my_positions, POSITION_SELL), LAMBDA short_vol :
    \* (A) break-even
    Bind(BreakEvenLoop(s, short_pos, tick, retick, script, i, <<>>), LAMBDA be_reqs :
    \* (B) gates
    Bind(GetM1RatesCached(s, m1, t), LAMBDA got :
    Bind(IF got.rates # None THEN VolatilityGate(got.s, Bars(Val(got.rates))) ELSE FALSE,
         LAMBDA vol_ok :
    Bind(IF got.rates # None THEN VolumeGate(got.s, Bars(Val(got.rates))) ELSE FALSE,
         LAMBDA volm_ok :
    LET net_vol == long_vol - short_vol
        gross == long_vol + short_vol
        i1 == i + Len(be_reqs)
        s1 == got.s
        gate_ok == GateOk(vol_ok, volm_ok)
        \* (C) entry
        ok_move == \/ s1.last_hedge_entry_price = None
                   \/ mid <= Val(s1.last_hedge_entry_price) - s1.hedge_entry_steps * s1.step
        vol_to_add == Min(tranche, hedge_target - short_vol * den)
        enter == /\ HedgeRoom(net_vol, cap, short_vol, den, hedge_target)
                 /\ gate_ok /\ (t - s1.last_hedge_time >= s1.hedge_cooldown)
                 /\ ok_move
                 /\ (s1.max_gross_vol = None
                     \/ gross * den + vol_to_add <= Val(s1.max_gross_vol) * den)
        open_rc == Resp(script, i1)
        open_vol == NormalizeVolume(s1, vol_to_add, den)
    IN
    Bind(enter /\ retick, LAMBDA sent :
    Bind(IF sent /\ IsDone(open_rc)
         THEN [s1 EXCEPT !.last_hedge_time = t, !.last_hedge_entry_price = Some(mid)]
         ELSE s1, LAMBDA s2 :
    LET open_reqs == IF sent
                     THEN <<Request("deal", POSITION_SELL, s1, NormalizePrice(s1, tick.bid),
                                    open_vol, 0, 0, open_rc)>>
                     ELSE <<>>
        i2 == i1 + Len(open_reqs)
        \* (D) exit
        rebound == /\ s2.last_hedge_entry_price # None
                   /\ mid >= Val(s2.last_hedge_entry_price) + s2.hedge_exit_steps * s2.step
        pos == Oldest(short_pos)
        close_rc == Resp(script, i2)
    IN
    Bind(/\ short_vol > 0 /\ (t - s2.last_hedge_time >= s2.hedge_cooldown)
         /\ (rebound \/ net_vol * fd <= cap * (fd - fn)), LAMBDA exit :
    LET close_reqs == IF exit /\ retick
                      THEN <<Request("close", POSITION_BUY, s2, NormalizePrice(s2, tick.ask),
                                     NormalizeVolume(s2, Min(tranche, pos.volume * den), den),
                                     pos.ticket, 0, close_rc)>>
                      ELSE <<>>
        closed == exit /\ retick /\ IsDone(close_rc)
        s3 == IF closed THEN [s2 EXCEPT !.last_hedge_time = t] ELSE s2
    IN  [s |-> s3, reqs |-> be_reqs \o open_reqs \o close_reqs,
         hedge |-> [ran |-> TRUE, rates |-> got.rates, vol_ok |-> vol_ok, volm_ok |-> volm_ok,
                    sent |-> sent, opened |-> sent /\ IsDone(open_rc), volume |-> open_vol,
                    closed |-> closed, long_vol |-> long_vol, short_vol |-> short_vol]]))))))))))

(***************************************************************************)
(* clear_old_orders: cancels every pending order of the engine's symbol    *)
(* and magic; a null answer makes `res.retcode` raise.                     *)
(***************************************************************************)
RemoveRequest(s, o, rc) ==
    Request("remove", o.type, s, o.price_open, o.volume_current, o.ticket, 0, rc)

RECURSIVE ClearLoop(_, _, _, _, _, _)
ClearLoop(s, todo, script, i, t, reqs) ==
    IF todo = <<>> THEN [s |-> s, reqs |-> reqs, raised |-> FALSE]
    ELSE LET o == Head(todo)
             rc == Resp(script, i)
             sent == Append(reqs, RemoveRequest(s, o, rc))
         IN  IF rc = RC_NONE THEN [s |-> s, reqs |-> sent, raised |-> TRUE]
             ELSE IF rc = RC_MARKET_CLOSED
             THEN [s |-> [s EXCEPT !.pause_until = t + PauseMarketClosed],
                   reqs |-> sent, raised |-> FALSE]
             ELSE ClearLoop(s, Tail(todo), script, i + 1, t, sent)

ClearOldOrders(s, book_orders, script, i, t) ==
    LET Mine(o) == o.symbol = s.symbol /\ o.magic = s.magic
    IN  ClearLoop(s, SelectSeq(book_orders, Mine), script, i, t, <<>>)

(***************************************************************************)
(* Trim (update, step 3A)                                                  *)
(***************************************************************************)
\* A trim that looks at the price only.
ShouldRemoveOffGrid(s, o, target_set) == NormalizePrice(s, o.price_open) \notin target_set

ShouldRemove(s, o, target_set) ==
    \/ NormalizePrice(s, o.price_open) \notin target_set
    \/ (o.type = BUY_LIMIT /\ s.mode = "short")
    \/ (o.type = SELL_LIMIT /\ s.mode = "long")

RECURSIVE TrimLoop(_, _, _, _, _, _)
TrimLoop(s, my_orders, target_set, script, i, reqs) ==
    IF my_orders = <<>> THEN reqs
    ELSE LET o == Head(my_orders)
         IN  IF o.type \in {BUY_LIMIT, SELL_LIMIT} /\ ShouldRemove(s, o, target_set)
             THEN TrimLoop(s, Tail(my_orders), target_set, script, i + 1,
                           Append(reqs, RemoveRequest(s, o, Resp(script, i))))
             ELSE TrimLoop(s, Tail(my_orders), target_set, script, i, reqs)

(***************************************************************************)
(* Fill (update, step 3B).  c: what the loops read and never change;       *)
(* a: what they carry (engine, request count, requests, placed_count,      *)
(* net_vol) and what they did (placed, denied, throttled).                 *)
(***************************************************************************)
MinDistPoints == 10

\* A fill that takes no position for a duplicate of a level.
IsDuplicatePosNever(s, price, existing_positions_prices) == FALSE

IsDuplicatePos(s, price, existing_positions_prices) ==
    \* abs(p_price - price) < step * 0.1
    \E p_price \in existing_positions_prices : Abs(p_price - price) * 10 < s.step

\* The bookkeeping after a placement with placed_count left as it was.
AfterPlaceNoCount(a, r, type, price, signed_lot) ==
    [a EXCEPT !.s = r.s,
              !.i = a.i + Len(r.reqs),
              !.reqs = a.reqs \o r.reqs,
              !.net_vol = IF r.ok THEN a.net_vol + signed_lot ELSE a.net_vol,
              !.placed = IF r.ok
                         THEN Append(a.placed, [type |-> type, price |-> price,
                                                volume |-> r.reqs[Len(r.reqs)].volume])
                         ELSE a.placed]

AfterPlace(a, r, type, price, signed_lot) ==
    [a EXCEPT !.s = r.s,
              !.i = a.i + Len(r.reqs),
              !.reqs = a.reqs \o r.reqs,
              !.placed_count = IF r.ok THEN a.placed_count + 1 ELSE a.placed_count,
              !.net_vol = IF r.ok THEN a.net_vol + signed_lot ELSE a.net_vol,
              !.placed = IF r.ok
                         THEN Append(a.placed, [type |-> type, price |-> price,
                                                volume |-> r.reqs[Len(r.reqs)].volume])
                         ELSE a.placed]

\* The gate's denial of a candidate of `side`: the loop of that side ends.
\* denials: the side, and how many requests the fill had sent by then.
Denied(a, side) ==
    [a EXCEPT !.denied = TRUE,
              !.denials = Append(@, [side |-> side, after |-> Len(a.reqs)])]

RECURSIVE FillBuys(_, _, _)
FillBuys(targets, c, a) ==
    IF targets = <<>> THEN a
    ELSE LET price == Head(targets) IN
         IF a.placed_count >= a.s.max_new_orders_per_update
         THEN [a EXCEPT !.throttled = TRUE]
         ELSE IF price \in c.existing_buy_prices THEN FillBuys(Tail(targets), c, a)
         ELSE IF Abs(price - c.tick.ask) < c.min_dist THEN FillBuys(Tail(targets), c, a)
         ELSE IF IsDuplicatePos(a.s, price, c.existing_positions_prices)
         THEN FillBuys(Tail(targets), c, a)
         ELSE IF ~AllowSide(a.s, "buy", c.long_vol, c.short_vol, c.pending_buy_vol,
                            c.pending_sell_vol, a.net_vol)
         THEN Denied(a, "buy")
         ELSE FillBuys(Tail(targets), c,
                       AfterPlace(a, PlaceBuyOrder(a.s, price, c.script, a.i, c.retick, c.t),
                                  BUY_LIMIT, price, a.s.lot))

RECURSIVE FillSells(_, _, _)
FillSells(targets, c, a) ==
    IF targets = <<>> THEN a
    ELSE LET price == Head(targets) IN
         IF a.placed_count >= a.s.max_new_orders_per_update
         THEN [a EXCEPT !.throttled = TRUE]
         ELSE IF price \in c.existing_sell_prices THEN FillSells(Tail(targets), c, a)
         ELSE IF Abs(price - c.tick.bid) < c.min_dist THEN FillSells(Tail(targets), c, a)
         ELSE IF IsDuplicatePos(a.s, price, c.existing_positions_prices)
         THEN FillSells(Tail(targets), c, a)
         ELSE IF ~AllowSide(a.s, "sell", c.long_vol, c.short_vol, c.pending_buy_vol,
                            c.pending_sell_vol, a.net_vol)
         THEN Denied(a, "sell")
         ELSE FillSells(Tail(targets), c,
                        AfterPlace(a, PlaceSellOrder(a.s, price, c.script, a.i, c.t),
                                   SELL_LIMIT, price, -a.s.lot))

\* The existing prices with the orders of the book left out.
PricesOfNone(seq, s, type) == {}

PricesOf(seq, s, type) ==
    {NormalizePrice(s, seq[i].price_open) : i \in {j \in DOMAIN seq : seq[j].type = type}}

\* The fill with the sell candidates tried before the buy candidates.
FillSellsFirst(s, my_orders, my_positions, target_buys, target_sells, tick, retick, script, i, t) ==
    LET e == CalcExposure(my_positions, my_orders)
        c == [tick |-> tick, retick |-> retick, script |-> script, t |-> t,
              long_vol |-> e.long_vol, short_vol |-> e.short_vol,
              pending_buy_vol |-> e.pending_buy_vol, pending_sell_vol |-> e.pending_sell_vol,
              existing_buy_prices |-> PricesOf(my_orders, s, BUY_LIMIT),
              existing_sell_prices |-> PricesOf(my_orders, s, SELL_LIMIT),
              existing_positions_prices |->
                  {NormalizePrice(s, my_positions[j].price_open) : j \in DOMAIN my_positions},
              min_dist |-> Max(s.stop_level, s.point * MinDistPoints)]
        a0 == [s |-> s, i |-> i, reqs |-> <<>>, placed_count |-> 0, net_vol |-> e.net_vol,
               placed |-> <<>>, denied |-> FALSE, throttled |-> FALSE, denials |-> <<>>]
    IN  FillBuys(target_buys, c, FillSells(target_sells, c, a0))

Fill(s, my_orders, my_positions, target_buys, target_sells, tick, retick, script, i, t) ==
    LET e == CalcExposure(my_positions, my_orders)
        c == [tick |-> tick, retick |-> retick, script |-> script, t |-> t,
              long_vol |-> e.long_vol, short_vol |-> e.short_vol,
              pending_buy_vol |-> e.pending_buy_vol, pending_sell_vol |-> e.pending_sell_vol,
              existing_buy_prices |-> PricesOf(my_orders, s, BUY_LIMIT),
              existing_sell_prices |-> PricesOf(my_orders, s, SELL_LIMIT),
              existing_positions_prices |->
                  {NormalizePrice(s, my_positions[j].price_open) : j \in DOMAIN my_positions},
              min_dist |-> Max(s.stop_level, s.point * MinDistPoints)]
        a0 == [s |-> s, i |-> i, reqs |-> <<>>, placed_count |-> 0, net_vol |-> e.net_vol,
               placed |-> <<>>, denied |-> FALSE, throttled |-> FALSE, denials |-> <<>>]
    IN  FillSells(target_sells, c, FillBuys(target_buys, c, a0))

(***************************************************************************)
(* GridStrategy.update: one reconciliation pass.                           *)
(*   orders_list, positions_list: the lists the caller hands in            *)
(*   book_orders: what mt5.orders_get returns if the pass asks itself      *)
(*   tick: the tick read at the start (None: absent); retick: whether a    *)
(*     later re-read of the tick succeeds; m1: the M1 series on offer      *)
(*   script: the gateway's answers to the requests, in order; t: the clock *)
(* The result holds the engine after the pass (s), the requests it sent    *)
(* and what the pass saw and decided.                                      *)
(***************************************************************************)
TickMaxAge == 600

\* A market that is open whatever the age of its tick.
IsMarketOpenAnyAge(tick, t) == tick # None

\* _is_market_open(tick): there is a tick, and its time stamp is within
\* TickMaxAge seconds of the clock.
IsMarketOpen(tick, t) ==
    IF tick = None THEN FALSE
    ELSE IF Abs(t - Val(tick).time) > TickMaxAge THEN FALSE
    ELSE TRUE

NoExposure ==
    [long_vol |-> 0, short_vol |-> 0, pending_buy_vol |-> 0, pending_sell_vol |-> 0,
     net_vol |-> 0]

\* A pass that ended at `kind` before the grid was touched.  polled: whether the
\* pass got as far as reading the tick, its first call of the gateway.
\* fetches: the books the pass read from the gateway itself; handed both lists,
\* update reads none, and clear_old_orders reads the symbol's orders.
Outcome(before, s, kind, tick, t, reqs, raised) ==
    [magic |-> before.magic, kind |-> kind, before |-> before, s |-> s, tick |-> tick,
     t |-> t, reqs |-> reqs, raised |-> raised,
     polled |-> kind \notin {"disabled", "paused"},
     fetches |-> IF kind = "stop" THEN {"orders_get"} ELSE {},
     mid |-> 0, inited |-> FALSE, moved |-> FALSE, anchor_from |-> None,
     hedge |-> NoHedge, target_buys |-> <<>>, target_sells |-> <<>>,
     exposure |-> NoExposure, placed |-> <<>>, denied |-> FALSE, throttled |-> FALSE,
     denials |-> <<>>, fill_reqs |-> <<>>, new_step |-> None]

\* An engine that takes every order and position of its magic for its own.
OwnedByMagic(s, x) == x.magic = s.magic

\* The orders and positions an engine works on: those of its magic and symbol.
Owned(s, x) == x.magic = s.magic /\ x.symbol = s.symbol

ActivePass(s, orders_list, positions_list, tk, retick, m1, script, t) ==
    LET mid_price == (tk.bid + tk.ask) \div 2
        Own(x) == Owned(s, x)
    IN
    Bind(SelectSeq(orders_list, Own), LAMBDA my_orders :
    Bind(SelectSeq(positions_list, Own), LAMBDA my_positions :
    \* anchor
    Bind(InitAnchorIfNeeded(s, mid_price), LAMBDA s1 :
    Bind(MaybeRecenter(s1, mid_price, t), LAMBDA rc :
    \* hedge manager
    Bind(HedgeManager(rc.s, my_positions, tk, retick, m1, script, 1, t), LAMBDA h :
    \* target grid
    Bind(TargetBuys(h.s, tk, mid_price), LAMBDA target_buys :
    Bind(TargetSells(h.s, tk, mid_price), LAMBDA target_sells :
    \* trim
    Bind(TrimLoop(h.s, my_orders, Range(target_buys \o target_sells), script,
                  1 + Len(h.reqs), <<>>), LAMBDA trims :
    \* fill
    Bind(Fill(h.s, my_orders, my_positions, target_buys, target_sells, tk, retick,
              script, 1 + Len(h.reqs) + Len(trims), t), LAMBDA f :
        [Outcome(s, f.s, "active", Some(tk), t, h.reqs \o trims \o f.reqs, FALSE) EXCEPT
            !.mid = mid_price,
            !.inited = (s.anchor = None),
            !.moved = rc.moved,
            !.anchor_from = s1.anchor,
            !.hedge = h.hedge,
            !.target_buys = target_buys,
            !.target_sells = target_sells,
            !.exposure = CalcExposure(my_positions, my_orders),
            !.placed = f.placed,
            !.denied = f.denied,
            !.throttled = f.throttled,
            !.denials = f.denials,
            !.fill_reqs = f.reqs])))))))))

\* The pass from the adaptive step on; s0 is the engine the pass started with.
RangedPass(s0, s, orders_list, positions_list, book_orders, tick, retick, m1, script, t) ==
    LET tk == Val(tick)
        mid_price == (tk.bid + tk.ask) \div 2
    IN  IF (mid_price < s.min_price \/ mid_price > s.max_price)
           /\ s.out_of_range_action = "stop"
        THEN LET cl == ClearOldOrders([s EXCEPT !.enabled = FALSE], book_orders, script, 1, t)
             IN  Outcome(s0, cl.s, "stop", tick, t, cl.reqs, cl.raised)
        ELSE IF (mid_price < s.min_price \/ mid_price > s.max_price)
                /\ s.out_of_range_action = "freeze"
        THEN Outcome(s0, s, "freeze", tick, t, <<>>, FALSE)
        ELSE [ActivePass(s, orders_list, positions_list, tk, retick, m1, script, t)
                 EXCEPT !.before = s0]

Pass(s, orders_list, positions_list, book_orders, tick, retick, m1, m15, script, t) ==
    IF ~s.enabled THEN Outcome(s, s, "disabled", tick, t, <<>>, FALSE)
    ELSE IF t < s.pause_until THEN Outcome(s, s, "paused", tick, t, <<>>, FALSE)
    ELSE IF tick = None \/ Val(tick).bid <= 0
    THEN Outcome(s, [s EXCEPT !.pause_until = t + PauseNoTick], "no_tick", tick, t, <<>>, FALSE)
    ELSE IF ~IsMarketOpen(tick, t) THEN Outcome(s, s, "closed", tick, t, <<>>, FALSE)
    ELSE IF /\ s.max_spread_points # None
            /\ Val(tick).ask - Val(tick).bid > Val(s.max_spread_points) * s.point
    THEN Outcome(s, [s EXCEPT !.pause_until = t + s.extreme_cooldown], "fuse",
                 tick, t, <<>>, FALSE)
    ELSE
    Bind(AtrStep(s, m15, t), LAMBDA a :
    IF a.raised THEN [Outcome(s, a.s, "error", tick, t, <<>>, TRUE) EXCEPT
                         !.new_step = a.new_step]
    ELSE [RangedPass(s, a.s, orders_list, positions_list, book_orders, tick, retick, m1,
                     script, t) EXCEPT !.new_step = a.new_step])

(***************************************************************************)
(* The gateway's book under the requests of a pass: a request answered     *)
(* done takes effect, any other answer leaves the book as it was.          *)
(***************************************************************************)
RemoveTicket(seq, ticket) == LET Keep(x) == x.ticket # ticket IN SelectSeq(seq, Keep)

ApplyRequest(book, q) ==
    IF ~IsDone(q.rc) THEN book
    ELSE IF q.op = "pending"
    THEN [book EXCEPT
            !.orders = Append(@, [ticket |-> book.nextTicket, type |-> q.type,
                                  price_open |-> q.price, volume_current |-> q.volume,
                                  magic |-> q.magic, symbol |-> q.symbol]),
            !.nextTicket = @ + 1]
    ELSE IF q.op = "remove"
    THEN [book EXCEPT !.orders = RemoveTicket(@, q.ticket)]
    ELSE IF q.op = "deal"
    THEN [book EXCEPT
            !.positions = Append(@, [ticket |-> book.nextTicket, type |-> q.type,
                                     price_open |-> q.price, volume |-> q.volume,
                                     magic |-> q.magic, symbol |-> q.symbol, sl |-> 0]),
            !.nextTicket = @ + 1]
    ELSE IF q.op = "close"
    THEN [book EXCEPT
            !.positions =
                LET cut == [j \in DOMAIN @ |->
                               IF @[j].ticket = q.ticket
                               THEN [@[j] EXCEPT !.volume = Max(0, @ - q.volume)]
                               ELSE @[j]]
                    Open(x) == x.volume > 0
                IN  SelectSeq(cut, Open)]
    ELSE \* "sltp"
         [book EXCEPT
            !.positions = [j \in DOMAIN @ |->
                              IF @[j].ticket = q.ticket THEN [@[j] EXCEPT !.sl = q.sl]
                              ELSE @[j]]]

RECURSIVE ApplyRequests(_, _)
ApplyRequests(book, reqs) ==
    IF reqs = <<>> THEN book
    ELSE ApplyRequests(ApplyRequest(book, Head(reqs)), Tail(reqs))

(***************************************************************************)
(* StrategyManager                                                         *)
(***************************************************************************)
GetState(s) ==
    [pause_until |-> s.pause_until, enabled |-> s.enabled, anchor |-> s.anchor,
     last_recenter_time |-> s.last_recenter_time,
     last_hedge_time |-> s.last_hedge_time,
     last_hedge_entry_price |-> s.last_hedge_entry_price,
     last_atr_value |-> s.last_atr_value,
     last_atr_time |-> s.last_atr_time]

SetState(s, state) ==
    [s EXCEPT !.pause_until = state.pause_until,
              !.enabled = state.enabled,
              !.anchor = state.anchor,
              !.last_recenter_time = state.last_recenter_time,
              !.last_hedge_time = state.last_hedge_time,
              !.last_hedge_entry_price = state.last_hedge_entry_price,
              !.last_atr_value = state.last_atr_value,
              !.last_atr_time = state.last_atr_time]

\* cfg.get(key, current) for an attribute that may be None
GetOpt(cfg, key, current) == IF key \in DOMAIN cfg THEN Some(cfg[key]) ELSE current

\* An update that replaces the engine by one built from the configuration, as
\* _add_strategy builds it.
UpdateStrategyRebuild(s, cfg) == NewStrategy(cfg)

UpdateStrategy(s, cfg) ==
    LET current_state == GetState(s)
        edited ==
            [s EXCEPT
                !.symbol = Get(cfg, "symbol", @),
                !.enabled = Get(cfg, "enabled", @),
                !.step = Get(cfg, "step", @),
                !.tp_dist = Get(cfg, "tp_dist", @),
                !.lot = Get(cfg, "lot", @),
                !.window = Get(cfg, "window", @),
                !.min_price = Get(cfg, "min_p", @),
                !.max_price = Get(cfg, "max_p", @),
                !.use_atr = Get(cfg, "use_atr", @),
                !.atr_period = Get(cfg, "atr_period", @),
                !.atr_factor = Get(cfg, "atr_factor", @),
                !.mode = Get(cfg, "mode", @),
                !.out_of_range_action = Get(cfg, "out_of_range_action", @),
                !.buy_window = Get(cfg, "buy_window", @),
                !.sell_window = Get(cfg, "sell_window", @),
                !.recenter_steps = Get(cfg, "recenter_steps", @),
                !.recenter_cooldown = Get(cfg, "recenter_cooldown", @),
                !.max_net_vol = GetOpt(cfg, "max_net_vol", @),
                !.max_spread_points = GetOpt(cfg, "max_spread_points", @),
                !.extreme_cooldown = Get(cfg, "extreme_cooldown", @),
                !.max_new_orders_per_update = Get(cfg, "max_new_orders_per_update", @),
                !.hedge_enabled = Get(cfg, "hedge_enabled", @),
                !.hedge_fraction = Get(cfg, "hedge_fraction", @),
                !.hedge_tranches = Get(cfg, "hedge_tranches", @),
                !.hedge_entry_steps = Get(cfg, "hedge_entry_steps", @),
                !.hedge_exit_steps = Get(cfg, "hedge_exit_steps", @),
                !.hedge_cooldown = Get(cfg, "hedge_cooldown", @),
                !.max_gross_vol = GetOpt(cfg, "max_gross_vol", @),
                !.hedge_vol_lookback = Get(cfg, "hedge_vol_lookback", @),
                !.hedge_vol_window = Get(cfg, "hedge_vol_window", @),
                !.hedge_vol_quantile = Get(cfg, "hedge_vol_quantile", @),
                !.hedge_vol_base = Get(cfg, "hedge_vol_base", @),
                !.hedge_vol_mult = Get(cfg, "hedge_vol_mult", @),
                !.be_trigger_steps = Get(cfg, "be_trigger_steps", @),
                !.be_buffer_points = Get(cfg, "be_buffer_points", @)]
    IN  SetState(edited, current_state)

\* The loop of sync over the configs: m is the manager's map and what the loop did.
RECURSIVE SyncConfigs(_, _, _, _, _)
SyncConfigs(configs, m, book_orders, script, t) ==
    IF configs = <<>> \/ m.raised THEN m
    ELSE IF Head(configs).magic \notin DOMAIN m.active
    THEN \* _add_strategy
         Bind(ClearOldOrders(NewStrategy(Head(configs)), book_orders, script,
                             1 + Len(m.reqs), t), LAMBDA cl :
         Bind([active |-> [k \in DOMAIN m.active \cup {Head(configs).magic} |->
                              IF k = Head(configs).magic THEN cl.s ELSE m.active[k]],
               reqs |-> m.reqs \o cl.reqs, raised |-> cl.raised], LAMBDA added :
         SyncConfigs(Tail(configs), added, book_orders, script, t)))
    ELSE Bind([m EXCEPT !.active[Head(configs).magic] = UpdateStrategy(@, Head(configs))],
              LAMBDA updated :
         SyncConfigs(Tail(configs), updated, book_orders, script, t))

\* The loop of sync over the magics the new set no longer names (_remove_strategy).
RECURSIVE SyncRemovals(_, _, _, _, _)
SyncRemovals(gone, m, book_orders, script, t) ==
    IF gone = {} \/ m.raised THEN m
    ELSE Bind(CHOOSE k \in gone : \A o \in gone : k <= o, LAMBDA magic :
         Bind(ClearOldOrders(m.active[magic], book_orders, script, 1 + Len(m.reqs), t),
              LAMBDA cl :
         Bind([active |-> [k \in DOMAIN m.active \ {magic} |-> m.active[k]],
               reqs |-> m.reqs \o cl.reqs, raised |-> cl.raised], LAMBDA dropped :
         SyncRemovals(gone \ {magic}, dropped, book_orders, script, t))))

\* sync with a changed configuration file that loads as `configs`
SyncChanged(act, configs, book_orders, script, t) ==
    Bind(SyncConfigs(configs, [active |-> act, reqs |-> <<>>, raised |-> FALSE],
                     book_orders, script, t), LAMBDA m1 :
    SyncRemovals(DOMAIN m1.active \ {configs[j].magic : j \in DOMAIN configs}, m1,
                 book_orders, script, t))

(***************************************************************************)
(* ConfigLoader.  A file is None when it cannot be read or parsed or its   *)
(* root is no list, else the sequence of its entries.                      *)
(***************************************************************************)
RequiredFields == {"symbol", "step", "tp_dist", "lot", "magic"}

\* _ensure_positive(cfg, key)
EnsurePositive(cfg, key) == key \in DOMAIN cfg /\ cfg[key] > 0

\* _validate_single up to the magic: the fields are there and the magic is new.
NamesNewMagic(cfg, seen_magic) ==
    RequiredFields \subseteq DOMAIN cfg /\ cfg.magic \notin seen_magic

\* _validate_single: no exception
ValidSingle(cfg, seen_magic) ==
    /\ NamesNewMagic(cfg, seen_magic)
    /\ EnsurePositive(cfg, "step") /\ EnsurePositive(cfg, "tp_dist")
    /\ EnsurePositive(cfg, "lot") /\ EnsurePositive(cfg, "window")
    /\ ~(Get(cfg, "min_p", 0) >= Get(cfg, "max_p", 0))

\* _validate_all: the valid entries in order; an entry that fails after its
\* magic was noted still bars a later entry of that magic.
RECURSIVE ValidateAll(_, _, _)
ValidateAll(items, seen_magic, validated) ==
    IF items = <<>> THEN validated
    ELSE ValidateAll(Tail(items),
                     IF NamesNewMagic(Head(items), seen_magic)
                     THEN seen_magic \cup {Head(items).magic} ELSE seen_magic,
                     IF ValidSingle(Head(items), seen_magic)
                     THEN Append(validated, Head(items)) ELSE validated)

\* A loader that reports a file it cannot read as no result.
LoadConfigsOrNone(file) ==
    IF file = None THEN None ELSE Some(ValidateAll(Val(file), {}, <<>>))

\* _load_configs, as load_if_changed returns it for a changed file (None: no
\* result): a file that cannot be read loads as the empty list.
LoadConfigs(file) ==
    IF file = None THEN Some(<<>>) ELSE Some(ValidateAll(Val(file), {}, <<>>))

\* StrategyManager.sync on a changed file that loaded as `loaded`.
SyncLoaded(act, loaded, book_orders, script, t) ==
    IF loaded = None THEN [active |-> act, reqs |-> <<>>, raised |-> FALSE]
    ELSE SyncChanged(act, Val(loaded), book_orders, script, t)

(***************************************************************************)
(* Bounds of the exploration.                                              *)
(***************************************************************************)
\* time.time() when the run starts
Epoch == 1000
\* the clock is followed for this many seconds
MaxClock == 2
\* the engines run this many passes in all
MaxPasses == 3
\* the market fills pending orders until the account holds this many positions
MaxPositions == 2
\* direct applications of _allow_side: volumes 0 .. MaxVol, lots 1 .. MaxLot
MaxVol == 2
MaxLot == 2
\* direct applications of _get_grid_level: prices 0 .. MaxPrice, steps up to MaxStep
MaxPrice == 12
MaxStep == 4
\* cycles of the longest ordinary run followed
MaxCycles == 3
\* direct applications of the placements: the gateway answers this many requests
MaxAnswers == 3

(***************************************************************************)
(* Scenarios: the configuration files, the gateway's books at start, and   *)
(* the market inputs a pass can meet.                                      *)
(*   "risk"  one engine with a net-volume cap, in each mode                *)
(*   "grid"  one engine without cap laying out its grid; the price jumps   *)
(*   "hedge" one long engine with the hedge manager on                     *)
(*   "errors" one engine and a stale order; the gateway fails requests     *)
(*   "manager" two engines; the configuration file gains and loses magics  *)
(*   "shared" one hedging engine in a book that holds orders and positions *)
(*            of another magic and of another symbol                       *)
(*   "cycle" two engines, one of them with a price range; the book changes *)
(*            between the batch fetch of a cycle and its passes            *)
(*   "trim"  one anchored engine, in each mode, and a book with orders on  *)
(*            and off its grid                                             *)
(*   "breakeven" one hedging engine with short positions that have no      *)
(*            stop, a tighter or a looser one                              *)
(*   "stale"  one engine (without an anchor, out of range with action stop,*)
(*            hedging) and ticks of every age around TickMaxAge            *)
(*   "tranche" one hedging engine with its long volume at the cap, with    *)
(*            and without a hedge already held                             *)
(*   "atr"   one engine with the adaptive step, its range of steps in      *)
(*            order (0.5 to 3 base steps) or not (2 down to 1)             *)
(*   "reload" two engines with an order each, and a configuration file     *)
(*            that is rewritten: unreadable, empty, with an entry less, an *)
(*            invalid entry, another symbol                                *)
(*   "calls" no engine: the pure helpers are applied directly              *)
(***************************************************************************)
Quote(bid, ask) == [bid |-> bid, ask |-> ask]

Position(ticket, type, price_open, volume, magic, symbol) ==
    [ticket |-> ticket, type |-> type, price_open |-> price_open, volume |-> volume,
     magic |-> magic, symbol |-> symbol, sl |-> 0]

BaseConfig ==
    [symbol |-> "EURUSD", magic |-> 1, step |-> P(10), tp_dist |-> P(10), lot |-> 5,
     window |-> 2, recenter_steps |-> 2, recenter_cooldown |-> 2]

With(cfg, key, value) ==
    [k \in DOMAIN cfg \cup {key} |-> IF k = key THEN value ELSE cfg[k]]

RiskConfig(mode, cap, max_new) ==
    With(With(With(With(BaseConfig, "mode", mode), "max_net_vol", cap),
              "max_new_orders_per_update", max_new), "window", 3)

\* step in half points: P(200) is 200 points, 21 is ten points and a half
GridConfig(step) ==
    With(With(With(BaseConfig, "step", step), "tp_dist", step), "max_new_orders_per_update", 1)

\* The gates look at the last 5 bars against the 30 (volatility) and `base`
\* (volume) bars before them.
HedgeConfig(cap, base) ==
    With(With(With(With(With(With(With(With(BaseConfig,
        "mode", "long"), "lot", 1), "max_net_vol", cap), "hedge_enabled", TRUE),
        "hedge_cooldown", 1), "hedge_vol_lookback", 30), "hedge_vol_window", 5),
        "hedge_vol_base", base)

\* One order a pass: the requests of a pass are few, their answers many.
ErrorConfig == With(BaseConfig, "max_new_orders_per_update", 1)

\* The adaptive step on two M15 bars, read again every second, smoothed by a
\* half, taken when it differs by more than a tenth of the step.
AtrConfig(min_step_mult, max_step_mult) ==
    With(With(With(With(With(With(With(With(BaseConfig,
        "use_atr", TRUE), "atr_period", 2), "atr_update_seconds", 1),
        "atr_smooth", [num |-> 1, den |-> 2]),
        "atr_change_threshold", [num |-> 1, den |-> 10]),
        "min_step_mult", min_step_mult), "max_step_mult", max_step_mult),
        "max_new_orders_per_update", 1)

\* One of several engines on the same symbol.
ManagerConfig(magic) ==
    With(With(BaseConfig, "magic", magic), "max_new_orders_per_update", 1)

\* An entry of the configuration file as the loader accepts it.
FileConfig(magic) == With(With(ManagerConfig(magic), "max_p", P(2000)), "anchor", P(1000))

\* The configuration files a sync can find (None: not readable).
Files(sc) ==
    IF sc = "reload"
    THEN {None, Some(<<>>), Some(<<FileConfig(1)>>),
          Some(<<FileConfig(1), FileConfig(2)>>),
          Some(<<FileConfig(1), With(FileConfig(2), "step", 0)>>),
          Some(<<FileConfig(1), With(FileConfig(2), "symbol", "GBPUSD")>>)}
    ELSE {}

\* An engine anchored at 1000 whose range ends between the two quotes on offer.
RangeConfig(magic, action) ==
    With(With(With(ManagerConfig(magic), "max_p", P(1005)), "out_of_range_action", action),
         "anchor", P(1000))

\* An engine anchored at 1000 in the given mode; one more with a range of
\* half a step around its anchor.
TrimConfig(mode) == With(With(ManagerConfig(1), "mode", mode), "anchor", P(1000))

\* The configuration files a run can start from.
InitConfigs(sc) ==
    CASE sc = "risk" -> {<<RiskConfig("neutral", 10, 10)>>, <<RiskConfig("long", 5, 10)>>,
                         <<RiskConfig("short", 5, 10)>>, <<RiskConfig("neutral", 10, 3)>>}
      [] sc = "grid" -> {<<GridConfig(P(200))>>, <<GridConfig(21)>>}
      [] sc = "hedge" -> {<<HedgeConfig(2, 20)>>, <<HedgeConfig(2, 310)>>}
      [] sc = "errors" -> {<<ErrorConfig>>}
      [] sc = "manager" -> {<<ManagerConfig(1), ManagerConfig(2)>>}
      [] sc = "shared" -> {<<HedgeConfig(2, 20)>>}
      [] sc = "breakeven" -> {<<HedgeConfig(2, 20)>>}
      [] sc = "tranche" -> {<<HedgeConfig(2, 20)>>}
      [] sc = "reload" -> {<<FileConfig(1), FileConfig(2)>>}
      [] sc = "atr" -> {<<AtrConfig(DefaultMinStepMult, DefaultMaxStepMult)>>,
                        <<AtrConfig([num |-> 2, den |-> 1], [num |-> 1, den |-> 1])>>}
      [] sc = "stale" -> {<<ManagerConfig(1)>>, <<RangeConfig(1, "stop")>>,
                          <<HedgeConfig(2, 20)>>}
      [] sc = "trim" -> {<<TrimConfig(mode)>> : mode \in {"neutral", "long", "short"}}
                        \cup {<<With(With(TrimConfig("neutral"), "min_p", P(995)),
                                     "max_p", P(1005))>>}
      [] sc = "cycle" -> {<<ManagerConfig(1), RangeConfig(2, action)>> :
                             action \in {"stop", "freeze", "ignore"}}
      [] OTHER -> {}

\* The configuration files an edit can produce.
EditedConfigs(sc) ==
    CASE sc = "risk" -> {<<With(RiskConfig("neutral", 10, 3), "max_net_vol", 15)>>}
      [] sc = "grid" -> {<<With(GridConfig(P(200)), "recenter_cooldown", 1)>>}
      [] sc = "hedge" -> {<<With(HedgeConfig(2, 20), "hedge_tranches", 1)>>}
      [] sc = "errors" -> {<<With(With(ErrorConfig, "enabled", TRUE), "recenter_cooldown", 1)>>}
      [] sc = "manager" -> {<<ManagerConfig(1)>>, <<ManagerConfig(3)>>,
                            <<ManagerConfig(1), ManagerConfig(2), ManagerConfig(3)>>}
      [] sc = "shared" -> {<<ManagerConfig(2)>>, <<HedgeConfig(2, 20), ManagerConfig(2)>>}
      [] OTHER -> {}

\* A short position of engine 1 with a stop-loss (0: none).
Short(ticket, price_open, sl) ==
    [Position(ticket, POSITION_SELL, price_open, 1, 1, "EURUSD") EXCEPT !.sl = sl]

\* The positions the account holds at start.
InitPositions(sc) ==
    CASE sc = "risk" -> {<<>>,
                         <<Position(1, POSITION_BUY, P(950), 5, 1, "EURUSD")>>,
                         <<Position(1, POSITION_SELL, P(1050), 5, 1, "EURUSD")>>}
      [] sc = "hedge" -> {<<>>, <<Position(1, POSITION_BUY, P(1050), 2, 1, "EURUSD")>>}
      \* the long of engine 1 at its cap, alone and with a hedge held from an
      \* earlier run of the engine
      [] sc = "tranche" -> {<<Position(1, POSITION_BUY, P(1050), 2, 1, "EURUSD")>>,
                            <<Position(1, POSITION_BUY, P(1050), 2, 1, "EURUSD"),
                              Position(2, POSITION_SELL, P(1000), 1, 1, "EURUSD")>>}
      [] sc = "stale" -> {<<>>, <<Position(1, POSITION_BUY, P(1050), 2, 1, "EURUSD")>>}
      \* the long of engine 1 and a short at 1020 without a stop, with a stop
      \* below, at and above entry + 20 points; a short 4 points in profit;
      \* two shorts, one a step in profit with a loose stop
      [] sc = "breakeven" ->
            {<<Position(1, POSITION_BUY, P(1050), 2, 1, "EURUSD"), Short(2, P(1020), sl)>> :
                 sl \in {0, P(1030), P(1040), P(1060)}}
            \cup {<<Position(1, POSITION_BUY, P(1050), 2, 1, "EURUSD"), Short(2, P(1005), 0)>>,
                  <<Position(1, POSITION_BUY, P(1050), 2, 1, "EURUSD"),
                    Short(2, P(1011), P(1060)), Short(3, P(1020), 0)>>}
      \* engine 1 long with a hedge short; a short of magic 2 on the same symbol;
      \* a short and a long of magic 1 on another symbol
      [] sc = "shared" -> {<<Position(1, POSITION_BUY, P(1050), 2, 1, "EURUSD"),
                             Position(2, POSITION_SELL, P(1020), 1, 1, "EURUSD"),
                             Position(3, POSITION_SELL, P(1020), 1, 2, "EURUSD"),
                             Position(4, POSITION_SELL, P(1020), 1, 1, "GBPUSD"),
                             Position(5, POSITION_BUY, P(1050), 1, 1, "GBPUSD")>>}
      [] OTHER -> {<<>>}

\* A pending order of the gateway's book.
Order(ticket, type, price_open, volume, magic, symbol) ==
    [ticket |-> ticket, type |-> type, price_open |-> price_open, volume_current |-> volume,
     magic |-> magic, symbol |-> symbol]

\* The pending orders the book holds at start.
InitOrders(sc) ==
    CASE sc = "errors" -> {<<Order(1, BUY_LIMIT, P(955), 5, 1, "EURUSD")>>}
      [] sc = "stale" -> {<<Order(1, BUY_LIMIT, P(955), 5, 1, "EURUSD")>>}
      [] sc = "reload" -> {<<Order(1, BUY_LIMIT, P(990), 5, 1, "EURUSD"),
                             Order(2, BUY_LIMIT, P(990), 5, 2, "EURUSD"),
                             Order(3, SELL_LIMIT, P(1010), 5, 2, "EURUSD")>>}
      \* the grid of engine 2, and two orders an earlier run left under magic 3
      [] sc = "manager" -> {<<Order(1, BUY_LIMIT, P(990), 5, 2, "EURUSD"),
                              Order(2, SELL_LIMIT, P(1010), 5, 2, "EURUSD"),
                              Order(3, BUY_LIMIT, P(955), 5, 3, "EURUSD"),
                              Order(4, SELL_LIMIT, P(1045), 5, 3, "EURUSD")>>}
      \* the same stale buy limit under magic 1, under magic 2, and under magic 1
      \* on another symbol
      [] sc = "shared" -> {<<Order(6, BUY_LIMIT, P(955), 1, 1, "EURUSD"),
                             Order(7, BUY_LIMIT, P(955), 1, 2, "EURUSD"),
                             Order(8, BUY_LIMIT, P(955), 1, 1, "GBPUSD")>>}
      \* a buy limit on the first level of either side, a stale buy limit, a
      \* sell limit on the grid, and a stop order off the grid
      [] sc = "trim" -> {<<Order(1, BUY_LIMIT, P(1000), 5, 1, "EURUSD"),
                           Order(2, BUY_LIMIT, P(955), 5, 1, "EURUSD"),
                           Order(3, SELL_LIMIT, P(1010), 5, 1, "EURUSD"),
                           Order(4, "BUY_STOP", P(1045), 5, 1, "EURUSD")>>}
      \* a stale order of engine 1 and the grid of engine 2
      [] sc = "cycle" -> {<<Order(1, BUY_LIMIT, P(955), 5, 1, "EURUSD"),
                            Order(2, BUY_LIMIT, P(990), 5, 2, "EURUSD"),
                            Order(3, SELL_LIMIT, P(1010), 5, 2, "EURUSD")>>}
      [] OTHER -> {<<>>}

\* Bid and ask of the ticks on offer.
Quotes(sc) ==
    CASE sc = "risk" -> {Quote(P(999), P(1001))}
      [] sc = "grid" -> {Quote(P(49999), P(50001)), Quote(P(50000), P(50000)),
                         Quote(P(50399), P(50401))}
      [] sc = "hedge" -> {Quote(P(999), P(1001))}
      [] sc = "errors" -> {Quote(P(999), P(1001)), Quote(0, P(2))}
      [] sc = "manager" -> {Quote(P(999), P(1001))}
      [] sc = "shared" -> {Quote(P(999), P(1001))}
      [] sc = "cycle" -> {Quote(P(999), P(1001)), Quote(P(1009), P(1011))}
      [] sc = "breakeven" -> {Quote(P(999), P(1001)), Quote(P(1009), P(1011))}
      [] sc = "atr" -> {Quote(P(999), P(1001))}
      [] sc = "reload" -> {Quote(P(999), P(1001))}
      [] sc = "tranche" -> {Quote(P(999), P(1001))}
      [] sc = "stale" -> {Quote(P(1009), P(1011))}
      [] sc = "trim" -> {Quote(P(999), P(1001)), Quote(P(989), P(991)),
                         Quote(P(1009), P(1011))}
      [] OTHER -> {}

\* Age of the tick in seconds; a tick stamped ahead of the clock has a
\* negative age.
TickAges(sc) ==
    IF sc = "stale" THEN {0, TickMaxAge, TickMaxAge + 1, 0 - (TickMaxAge + 1)} ELSE {0}

\* Whether a helper that reads the tick again gets one.
Reticks(sc) == IF sc \in {"errors", "breakeven"} THEN BOOLEAN ELSE {TRUE}

\* The M1 series the gateway returns when asked (None: no data).
M1Offers(sc) ==
    CASE sc = "hedge" -> {None, Some("calm"), Some("burst"), Some("loud"), Some("partial")}
      [] sc = "shared" -> {None, Some("burst"), Some("loud")}
      [] sc = "stale" -> {None, Some("burst")}
      [] sc = "tranche" -> {None, Some("calm"), Some("burst")}
      [] OTHER -> {None}

\* Three M15 bars whose two true ranges are both `points`: the first pair by
\* its own range, the second by its gap to the close before.
Rates(points) ==
    <<[high |-> P(1000), low |-> P(1000), close |-> P(1000)],
      [high |-> P(1000) + P(points), low |-> P(1000), close |-> P(1000) + P(points)],
      [high |-> P(1000) + P(points), low |-> P(1000), close |-> P(1000)]>>

\* The M15 series the gateway returns when asked (None: no data): too few
\* bars, a flat market, and mean true ranges of 2, 11, 12 and 40 points.
M15Offers(sc) ==
    IF sc = "atr"
    THEN {None, Some(SubSeq(Rates(12), 1, 2))}
         \cup {Some(Rates(points)) : points \in {0, 2, 11, 12, 40}}
    ELSE {None}

\* Every answer but done/placed, the null result included.
FailureCodes ==
    {RC_NONE, RC_REQUOTE, RC_INVALID_REQUEST, RC_INVALID_VOLUME, RC_REJECT, RC_MARKET_CLOSED,
     RC_CLIENT_DISABLES_AT, RC_UNSUPPORTED_FILLING}

\* "errors": the first request of a pass is the cancel of the stale order while
\* it is in the book; a failure answers it, or the placement after it, or the
\* retry of that placement, or two placements in a row.
ErrorScripts ==
    {<<>>}
    \cup {<<rc>> : rc \in {RC_NONE, RC_REJECT, RC_MARKET_CLOSED}}
    \cup {<<TRADE_RETCODE_DONE, rc>> : rc \in FailureCodes}
    \cup {<<TRADE_RETCODE_DONE, first, rc>> :
              first \in {RC_REQUOTE, RC_UNSUPPORTED_FILLING},
              rc \in {RC_NONE, RC_REQUOTE, RC_MARKET_CLOSED}}
    \cup {<<TRADE_RETCODE_DONE, RC_MARKET_CLOSED, RC_REJECT>>}
    \cup {<<TRADE_RETCODE_DONE, rc, rc>> : rc \in FailureCodes \ {RC_NONE}}

\* The gateway's answers to the requests of a pass or of a sync, in order.
Scripts(sc) ==
    CASE sc = "risk" -> {<<>>, <<RC_REQUOTE>>,
                         <<TRADE_RETCODE_DONE, RC_MARKET_CLOSED>>}
      [] sc = "hedge" -> {<<>>, <<RC_REJECT>>}
      [] sc = "errors" -> ErrorScripts
      [] sc = "manager" -> {<<>>, <<RC_MARKET_CLOSED>>, <<RC_NONE>>,
                            <<TRADE_RETCODE_DONE, RC_REJECT>>}
      [] sc = "cycle" -> {<<>>, <<RC_MARKET_CLOSED>>}
      [] sc = "trim" -> {<<>>, <<RC_REJECT>>, <<RC_NONE>>}
      [] sc = "breakeven" -> {<<>>, <<RC_REJECT>>}
      [] sc = "atr" -> {<<>>}
      [] sc = "reload" -> {<<>>, <<RC_MARKET_CLOSED>>}
      [] sc = "stale" -> {<<>>}
      [] sc = "tranche" -> {<<>>, <<RC_REJECT>>}
      [] OTHER -> {<<>>}

\* The clock readings followed, in seconds after the start: every second up to
\* MaxClock; for "errors" the ends of the pauses _handle_order_error sets and
\* the second before the longest one ends.
ClockOffsets(sc) ==
    IF sc = "errors"
    THEN {0, PauseRequote, PauseOther, PauseMarketClosed - 1, PauseMarketClosed}
    ELSE 0 .. MaxClock

\* The passes a run makes in all: "errors" offers many answers to each pass and
\* follows one pass less, and so does "cycle", where the market moves between
\* fetch and pass; "manager" follows the syncs around a single pass.
PassBudget(sc) ==
    CASE sc = "errors" -> MaxPasses - 1
      [] sc = "cycle" -> MaxPasses - 1
      [] sc = "manager" -> 1
      [] sc = "reload" -> 2
      [] OTHER -> MaxPasses

\* The ticks a pass can read at time t: absent, or a quote with its time stamp.
TicksAt(sc, t) ==
    {None} \cup {Some([bid |-> q.bid, ask |-> q.ask, time |-> t - age]) :
                    q \in Quotes(sc), age \in TickAges(sc)}

(***************************************************************************)
(* State machine                                                           *)
(***************************************************************************)
NoPass == [kind |-> "none"]
NoCall == [fn |-> "none"]
NoSync == [kind |-> "none"]
NoRun == [at |-> "none"]

\* The manager's map after the initial sync of a run (each engine constructed).
InitialActive(configs) ==
    [magic \in {configs[j].magic : j \in DOMAIN configs} |->
        NewStrategy(configs[CHOOSE j \in DOMAIN configs : configs[j].magic = magic])]

InitBook(sc) ==
    /\ scenario = sc
    /\ \E configs \in InitConfigs(sc) : active = InitialActive(configs)
    /\ \E os \in InitOrders(sc), ps \in InitPositions(sc) :
          /\ orders = os
          /\ positions = ps
          /\ nextTicket = Len(os) + Len(ps) + 1
    /\ now = Epoch
    /\ last = NoPass
    /\ prev = NoPass
    /\ call = NoCall
    /\ recenters = [magic \in DOMAIN active |-> <<>>]
    /\ passes = 0
    /\ synced = NoSync

InitScenario(sc) ==
    /\ InitBook(sc)
    /\ run = NoRun

\* No engine runs: the helpers are applied to arguments drawn from bounded sets.
InitCalls ==
    /\ scenario = "calls"
    /\ active = <<>>
    /\ orders = <<>>
    /\ positions = <<>>
    /\ nextTicket = 1
    /\ now = Epoch
    /\ last = NoPass
    /\ prev = NoPass
    /\ call = NoCall
    /\ recenters = <<>>
    /\ passes = 0
    /\ synced = NoSync
    /\ run = NoRun

\* The orders of an engine read from the gateway anew for its pass.
OrdersRefetched(all_orders, magic) ==
    LET OfMagic(x) == x.magic = magic IN SelectSeq(orders, OfMagic)

\* orders_by_magic[magic] and positions_by_magic[magic] of the batch fetch.
OrdersByMagic(all_orders, magic) ==
    LET OfMagic(x) == x.magic = magic IN SelectSeq(all_orders, OfMagic)

PositionsByMagic(all_positions, magic) ==
    LET OfMagic(x) == x.magic = magic IN SelectSeq(all_positions, OfMagic)

\* The runner hands engine `magic` the orders and positions of its magic out of
\* the lists all_orders and all_positions of its batch fetch, and the engine
\* runs its pass against the gateway's book as it is by then.
UpdateOn(magic, all_orders, all_positions) ==
    /\ magic \in DOMAIN active
    /\ passes < PassBudget(scenario)
    /\ passes' = passes + 1
    /\ \E tick \in TicksAt(scenario, now), retick \in Reticks(scenario),
          m1 \in M1Offers(scenario), m15 \in M15Offers(scenario),
          script \in Scripts(scenario) :
          \E r \in {Pass(active[magic], OrdersByMagic(all_orders, magic),
                         PositionsByMagic(all_positions, magic), orders,
                         tick, retick, m1, m15, script, now)} :
          \E book \in {ApplyRequests([orders |-> orders, positions |-> positions,
                                      nextTicket |-> nextTicket], r.reqs)} :
              /\ active' = [active EXCEPT ![magic] = r.s]
              /\ orders' = book.orders
              /\ positions' = book.positions
              /\ nextTicket' = book.nextTicket
              /\ last' = r
              /\ prev' = last
              /\ recenters' = IF r.moved
                              THEN [recenters EXCEPT ![magic] = LastN(Append(@, now), 2)]
                              ELSE recenters
    /\ synced' = NoSync
    /\ UNCHANGED <<now, scenario, call>>

\* A pass right after the fetch: the lists handed in are the book itself.
Update(magic) ==
    /\ UpdateOn(magic, orders, positions)
    /\ UNCHANGED run

\* The batch fetch of a cycle (orders_get, positions_get), made when the passes
\* of the cycle before are over; every enabled engine is due a pass.
BatchFetch ==
    /\ run.at = "cycle"
    /\ run.todo = {}
    /\ run.n < MaxCycles
    /\ run' = [run EXCEPT !.n = @ + 1,
                          !.all_orders = orders,
                          !.all_positions = positions,
                          !.todo = {magic \in DOMAIN active : active[magic].enabled},
                          !.drifted = FALSE]
    /\ UNCHANGED <<active, orders, positions, nextTicket, now, scenario, last, prev, call,
                   recenters, passes, synced>>

\* The pass of an engine of the cycle, on the lists of the batch fetch.
\* drifted: the book had changed since the fetch when the pass ran.
CyclePass(magic) ==
    /\ run.at = "cycle"
    /\ magic \in run.todo
    /\ UpdateOn(magic, run.all_orders, run.all_positions)
    /\ run' = [run EXCEPT !.todo = @ \ {magic},
                          !.drifted = (orders # run.all_orders
                                        \/ positions # run.all_positions)]

\* The configuration file is edited and the manager's next sync applies it.
Sync ==
    /\ \E configs \in EditedConfigs(scenario), script \in Scripts(scenario) :
          \E m \in {SyncChanged(active, configs, orders, script, now)} :
          \E book \in {ApplyRequests([orders |-> orders, positions |-> positions,
                                      nextTicket |-> nextTicket], m.reqs)} :
              /\ active' = m.active
              /\ active' # active
              /\ orders' = book.orders
              /\ synced' = [kind |-> "sync", before |-> active, configs |-> configs,
                            book |-> orders, reqs |-> m.reqs, raised |-> m.raised,
                            after |-> m.active, t |-> now]
              /\ recenters' = [magic \in DOMAIN m.active |->
                                  IF magic \in DOMAIN active THEN recenters[magic] ELSE <<>>]
    /\ last' = NoPass
    /\ prev' = NoPass
    /\ UNCHANGED <<positions, nextTicket, now, scenario, call, passes, run>>

\* The configuration file is rewritten and the manager's next sync loads it;
\* a cycle syncs once at most, before its passes.
SyncFile ==
    /\ synced = NoSync
    /\ \E file \in Files(scenario), script \in Scripts(scenario) :
          \E m \in {SyncLoaded(active, LoadConfigs(file), orders, script, now)} :
          \E book \in {ApplyRequests([orders |-> orders, positions |-> positions,
                                      nextTicket |-> nextTicket], m.reqs)} :
              /\ active' = m.active
              /\ orders' = book.orders
              /\ synced' = [kind |-> "sync", file |-> file, before |-> active,
                            book |-> orders, reqs |-> m.reqs, raised |-> m.raised,
                            after |-> m.active, t |-> now]
              /\ recenters' = [magic \in DOMAIN m.active |->
                                  IF magic \in DOMAIN active THEN recenters[magic] ELSE <<>>]
    /\ last' = NoPass
    /\ prev' = NoPass
    /\ UNCHANGED <<positions, nextTicket, now, scenario, call, passes, run>>

\* The market reaches a pending order: it becomes a position.
MarketFill ==
    /\ Len(positions) < MaxPositions
    /\ \E j \in DOMAIN orders :
          LET o == orders[j] IN
          /\ orders' = RemoveTicket(orders, o.ticket)
          /\ positions' = Append(positions,
                 Position(o.ticket,
                          IF o.type = BUY_LIMIT THEN POSITION_BUY ELSE POSITION_SELL,
                          o.price_open, o.volume_current, o.magic, o.symbol))
    /\ last' = NoPass
    /\ prev' = NoPass
    /\ synced' = NoSync
    /\ UNCHANGED <<active, nextTicket, now, scenario, call, recenters, passes, run>>

\* Time passes, to the next clock reading followed.
Advance ==
    /\ DOMAIN active # {}
    /\ \E later \in {Epoch + d : d \in ClockOffsets(scenario)} :
          /\ later > now
          /\ \A other \in {Epoch + d : d \in ClockOffsets(scenario)} :
                other > now => later <= other
          /\ now' = later
    /\ last' = NoPass
    /\ prev' = NoPass
    /\ synced' = NoSync
    /\ UNCHANGED <<active, orders, positions, nextTicket, scenario, call, recenters, passes, run>>

\* _allow_side applied to an engine of the given mode, lot and cap.
ApplyAllowSide ==
    /\ scenario = "calls"
    /\ call = NoCall
    /\ \E mode \in {"neutral", "long", "short"}, side \in {"buy", "sell"},
          lot \in (1 .. MaxLot) \cup {5},
          cap \in {None} \cup {Some(c) : c \in (1 .. 2 * MaxVol + 1) \cup {10}},
          long_vol \in 0 .. MaxVol, short_vol \in 0 .. MaxVol,
          pending_buy_vol \in 0 .. MaxVol, pending_sell_vol \in 0 .. MaxVol,
          net_vol \in (-MaxVol .. MaxVol) \cup {8} :
          LET plain == With(With(BaseConfig, "mode", mode), "lot", lot)
              cfg == IF cap = None THEN plain ELSE With(plain, "max_net_vol", Val(cap))
              s == NewStrategy(cfg)
          IN  call' = [fn |-> "_allow_side", mode |-> mode, lot |-> lot, cap |-> cap,
                       side |-> side, long_vol |-> long_vol, short_vol |-> short_vol,
                       pending_buy_vol |-> pending_buy_vol,
                       pending_sell_vol |-> pending_sell_vol, net_vol |-> net_vol,
                       result |-> AllowSide(s, side, long_vol, short_vol, pending_buy_vol,
                                            pending_sell_vol, net_vol)]
    /\ UNCHANGED <<active, orders, positions, nextTicket, now, scenario, last, prev, recenters,
                   passes, synced, run>>

\* _get_grid_level applied to an engine whose step was set to `step`.
ApplyGetGridLevel ==
    /\ scenario = "calls"
    /\ call = NoCall
    /\ \E step \in -1 .. MaxStep, price \in 0 .. MaxPrice, anchor \in 0 .. MaxPrice :
          LET s == [NewStrategy(BaseConfig) EXCEPT !.step = step]
          IN  call' = [fn |-> "_get_grid_level", step |-> step, price |-> price,
                       anchor |-> anchor, result |-> GetGridLevel(s, price, anchor)]
    /\ UNCHANGED <<active, orders, positions, nextTicket, now, scenario, last, prev, recenters,
                   passes, synced, run>>

\* _handle_order_error applied to an engine that is enabled or not, paused or not.
ApplyHandleOrderError ==
    /\ scenario = "calls"
    /\ call = NoCall
    /\ \E retcode \in FailureCodes \ {RC_NONE}, enabled \in BOOLEAN,
          pause_until \in {0, Epoch + PauseMarketClosed}, t \in Epoch .. Epoch + MaxClock :
          LET s == [NewStrategy(BaseConfig) EXCEPT !.enabled = enabled,
                                                   !.pause_until = pause_until]
          IN  call' = [fn |-> "_handle_order_error", retcode |-> retcode, t |-> t,
                       before |-> s, result |-> HandleOrderError(s, retcode, t)]
    /\ UNCHANGED <<active, orders, positions, nextTicket, now, scenario, last, prev, recenters,
                   passes, synced, run>>

\* Every answer of the gateway to an order_send.
AnswerCodes == FailureCodes \cup {TRADE_RETCODE_DONE, TRADE_RETCODE_PLACED}

\* The answers to up to MaxAnswers requests in a row.
AnswerScripts ==
    UNION {[1 .. n -> AnswerCodes] : n \in 0 .. MaxAnswers}

\* _place_buy_order applied to a level of the grid, against every run of answers.
ApplyPlaceBuyOrder ==
    /\ scenario = "calls"
    /\ call = NoCall
    /\ \E script \in AnswerScripts, retick \in BOOLEAN, price \in {P(990), P(980)} :
          LET s == NewStrategy(BaseConfig)
          IN  call' = [fn |-> "_place_buy_order", type |-> BUY_LIMIT, price |-> price,
                       script |-> script, retick |-> retick, before |-> s,
                       result |-> PlaceBuyOrder(s, price, script, 1, retick, now)]
    /\ UNCHANGED <<active, orders, positions, nextTicket, now, scenario, last, prev, recenters,
                   passes, synced, run>>

\* _place_sell_order likewise; it reads no tick of its own.
ApplyPlaceSellOrder ==
    /\ scenario = "calls"
    /\ call = NoCall
    /\ \E script \in AnswerScripts, price \in {P(1010), P(1020)} :
          LET s == NewStrategy(BaseConfig)
          IN  call' = [fn |-> "_place_sell_order", type |-> SELL_LIMIT, price |-> price,
                       script |-> script, retick |-> TRUE, before |-> s,
                       result |-> PlaceSellOrder(s, price, script, 1, now)]
    /\ UNCHANGED <<active, orders, positions, nextTicket, now, scenario, last, prev, recenters,
                   passes, synced, run>>

\* The fields a configuration edit can change, with the value it gives them.
ConfigEdits ==
    {<<"symbol", "GBPUSD">>, <<"enabled", FALSE>>, <<"enabled", TRUE>>, <<"step", P(20)>>,
     <<"lot", 1>>, <<"window", 3>>, <<"mode", "long">>, <<"use_atr", TRUE>>,
     <<"atr_period", 5>>, <<"recenter_cooldown", 1>>, <<"hedge_enabled", TRUE>>,
     <<"hedge_cooldown", 1>>, <<"max_net_vol", 10>>, <<"out_of_range_action", "stop">>}

\* _update_strategy applied to an engine in the middle of its life: paused or
\* not, anchored or not, with or without a recenter, a hedge and an ATR reading
\* behind it.  The configuration differs from the engine's in one or two fields.
ApplyUpdateStrategy ==
    /\ scenario = "calls"
    /\ call = NoCall
    /\ \E enabled \in BOOLEAN, pause_until \in {0, Epoch + PauseMarketClosed},
          anchor \in {None, Some(P(1000))}, last_recenter_time \in {0, Epoch},
          last_hedge_time \in {0, Epoch}, last_hedge_entry_price \in {None, Some(P(1010))},
          atr \in {[value |-> None, time |-> 0], [value |-> Some([num |-> P(12), den |-> 1]), time |-> Epoch]},
          e1 \in ConfigEdits, e2 \in ConfigEdits :
          LET s == [NewStrategy(BaseConfig) EXCEPT
                        !.enabled = enabled, !.pause_until = pause_until, !.anchor = anchor,
                        !.last_recenter_time = last_recenter_time,
                        !.last_hedge_time = last_hedge_time,
                        !.last_hedge_entry_price = last_hedge_entry_price,
                        !.last_atr_value = atr.value, !.last_atr_time = atr.time]
              cfg == With(With(BaseConfig, e1[1], e1[2]), e2[1], e2[2])
          IN  call' = [fn |-> "_update_strategy", cfg |-> cfg, before |-> s,
                       result |-> UpdateStrategy(s, cfg)]
    /\ UNCHANGED <<active, orders, positions, nextTicket, now, scenario, last, prev, recenters,
                   passes, synced, run>>

Next ==
    \/ \E magic \in DOMAIN active : Update(magic)
    \/ Sync
    \/ MarketFill
    \/ Advance

\* The engine with a net-volume cap.
Init == InitScenario("risk")

Spec == Init /\ [][Next]_vars

\* The engine laying out its grid, and _get_grid_level on its own.
InitGrid == InitScenario("grid") \/ InitCalls

NextGrid ==
    \/ \E magic \in DOMAIN active : Update(magic)
    \/ Sync
    \/ MarketFill
    \/ Advance
    \/ ApplyGetGridLevel

SpecGrid == InitGrid /\ [][NextGrid]_vars

\* The long engine with the hedge manager on.
InitHedge == InitScenario("hedge")

SpecHedge == InitHedge /\ [][Next]_vars

\* The engine against a failing gateway, and _handle_order_error on its own.
\* Configuration edits: applied to engines that ran passes with the hedge
\* controller, and to engines in every runtime state.
InitConfig == InitScenario("hedge") \/ InitCalls

NextConfig ==
    \/ \E magic \in DOMAIN active : Update(magic)
    \/ Sync
    \/ MarketFill
    \/ Advance
    \/ ApplyUpdateStrategy

SpecConfig == InitConfig /\ [][NextConfig]_vars

\* Several engines, and a configuration file that gains and loses magics.
InitManager == InitScenario("manager")

\* The book changes by the engines' and the manager's requests only.
NextManager ==
    \/ \E magic \in DOMAIN active : Update(magic)
    \/ Sync

SpecManager == InitManager /\ [][NextManager]_vars

\* One book for several magics and symbols.
InitShared == InitScenario("shared")

NextShared ==
    \/ \E magic \in DOMAIN active : Update(magic)
    \/ Sync
    \/ Advance

SpecShared == InitShared /\ [][NextShared]_vars

\* Syncs on a rewritten configuration file, and passes between them.
InitReload == InitScenario("reload")

NextReload ==
    \/ \E magic \in DOMAIN active : Update(magic)
    \/ SyncFile
    \/ Advance

SpecReload == InitReload /\ [][NextReload]_vars

\* The loop of the runner never stops: a step that can be taken is taken.
SpecReloadFair == SpecReload /\ WF_vars(NextReload)

\* Passes of an engine with the adaptive step.
InitAtr == InitScenario("atr")

NextAtr ==
    \/ \E magic \in DOMAIN active : Update(magic)
    \/ Advance

SpecAtr == InitAtr /\ [][NextAtr]_vars

\* Passes on ticks of every age.
InitStale == InitScenario("stale")

NextStale ==
    \/ \E magic \in DOMAIN active : Update(magic)
    \/ Advance

SpecStale == InitStale /\ [][NextStale]_vars

\* The hedge entry with and without a hedge held.
InitTranche == InitScenario("tranche")

NextTranche ==
    \/ \E magic \in DOMAIN active : Update(magic)
    \/ Advance

SpecTranche == InitTranche /\ [][NextTranche]_vars

\* The hedge shorts and their stops.
InitBreakEven == InitScenario("breakeven")

NextBreakEven ==
    \/ \E magic \in DOMAIN active : Update(magic)
    \/ Advance

SpecBreakEven == InitBreakEven /\ [][NextBreakEven]_vars

\* The trim of a book that holds more than the grid.
InitTrim == InitScenario("trim")

NextTrim ==
    \/ \E magic \in DOMAIN active : Update(magic)
    \/ Advance

SpecTrim == InitTrim /\ [][NextTrim]_vars

\* The cycles of the runner: one batch fetch, then the passes of the enabled
\* engines, in any order; the market fills orders at any time in between.
InitCycle ==
    /\ InitBook("cycle")
    /\ run = [at |-> "cycle", n |-> 0, all_orders |-> <<>>, all_positions |-> <<>>,
              todo |-> {}, drifted |-> FALSE]

NextCycle ==
    \/ BatchFetch
    \/ \E magic \in DOMAIN active : CyclePass(magic)
    \/ MarketFill

SpecCycle == InitCycle /\ [][NextCycle]_vars

InitErrors == InitScenario("errors") \/ InitCalls

NextErrors ==
    \/ \E magic \in DOMAIN active : Update(magic)
    \/ Sync
    \/ MarketFill
    \/ Advance
    \/ ApplyHandleOrderError

SpecErrors == InitErrors /\ [][NextErrors]_vars

\* The risk gate on its own.
NextCalls == ApplyAllowSide

SpecCalls == InitCalls /\ [][NextCalls]_vars

\* The two placements on their own.
NextPlace ==
    \/ ApplyPlaceBuyOrder
    \/ ApplyPlaceSellOrder

SpecPlace == InitCalls /\ [][NextPlace]_vars

(***************************************************************************)
(* The scheduling loop: Runner.run (runner.py), which runs the passes one  *)
(* after the other, and run_loop (run.py), which hands them to a worker    *)
(* pool.  Here a pass is what the loop sees of it: the gateway calls it    *)
(* makes, one at a time, and whether it returns or raises.  Times of the   *)
(* monotonic clock are counted in half seconds from started_at.            *)
(***************************************************************************)
\* interval = max(0.5, interval)
MinInterval == 1
\* the configuration is synced when 2.0 seconds have passed since the last sync
SyncPeriod == 4
\* time.sleep(max(2.0, interval)) of the breaker and of a connectivity failure
BackoffSleep == 4
MaxConsecutiveErrors == 10
\* the breaker halts below this margin level (per cent)
MarginFloor == 200

\* a pass makes at most this many gateway calls
MaxCalls == 1

\* The enabled engines of the run, by magic (a disabled engine gets no pass).
RunEnabled == {1, 2}

\* cycles, max_seconds and interval as given on the command line.
RunArgs ==
    {[cycles |-> -1, max_seconds |-> 0, interval |-> 0],
     [cycles |-> 0, max_seconds |-> 0, interval |-> 2],
     [cycles |-> 2, max_seconds |-> 0, interval |-> 2],
     [cycles |-> MaxCycles, max_seconds |-> 0, interval |-> 6],
     [cycles |-> MaxCycles, max_seconds |-> 6, interval |-> 2],
     [cycles |-> MaxCycles, max_seconds |-> 2, interval |-> 0],
     [cycles |-> MaxConsecutiveErrors + 2, max_seconds |-> 0, interval |-> BackoffSleep]}

\* account_info(): None, or an account with this margin level.
AccountOffers == {None, Some(0), Some(MarginFloor - 1), Some(MarginFloor)}

\* Before the first iteration.
NoCycle ==
    [n |-> 0, began |-> 0, acc |-> None, term |-> FALSE, calls |-> {},
     was_halted |-> FALSE, passed |-> {}, raised |-> {}, streak |-> 0]

\* Whether the engines were built with the client's lock (strategy_manager.py
\* line 44) or without one (run.py line 83).
UsesLock(program) == program = "Runner.run"

\* The loop is over: the cycles are used up or max_seconds have elapsed.
LoopEndsLate(r) ==
    \/ r.i >= Max(1, r.cycles) + 1
    \/ r.max_seconds > 0 /\ r.clock >= r.max_seconds

LoopEnds(r) ==
    \/ r.i >= Max(1, r.cycles)
    \/ r.max_seconds > 0 /\ r.clock >= r.max_seconds

\* The breaker that never halts.
BreakerOff(acc) == FALSE

\* The global circuit breaker.
Breaker(acc) == acc # None /\ Val(acc) > 0 /\ Val(acc) < MarginFloor

\* The record of an iteration: what it read and which gateway calls the
\* runner and the manager made in it.
\* streak: for how many iterations in a row, this one included, Runner.run
\* has failed to get the account or the terminal information.
Cycle(r, acc, term, calls) ==
    [n |-> r.i + 1, began |-> r.clock, acc |-> acc, term |-> term, calls |-> calls,
     was_halted |-> r.halted, passed |-> {}, raised |-> {},
     streak |-> IF r.program = "Runner.run" /\ (acc = None \/ ~term)
                THEN r.cycle.streak + 1 ELSE 0]

\* A counter of failures that no success resets.
ErrorsAfterNoReset(r, failed) ==
    IF failed THEN r.consecutive_errors + 1 ELSE r.consecutive_errors

\* consecutive_errors after an iteration that failed, or did not fail, to get
\* the account and terminal information.
ErrorsAfter(r, failed) == IF failed THEN r.consecutive_errors + 1 ELSE 0

\* One iteration of the loop from its top to the point where the passes start.
Iteration(r, acc, term) ==
    LET interval == Max(MinInterval, r.interval)
        backoff == Max(BackoffSleep, interval)
        started == [r EXCEPT !.i = @ + 1]
    IN
    IF r.program = "Runner.run" /\ (acc = None \/ ~term)
    THEN \* connectivity failure
         IF ErrorsAfter(r, TRUE) >= MaxConsecutiveErrors
         THEN [started EXCEPT !.consecutive_errors = ErrorsAfter(r, TRUE), !.at = "done",
                              !.cycle = Cycle(r, acc, term, {"account_info", "terminal_info"})]
         ELSE [started EXCEPT !.consecutive_errors = ErrorsAfter(r, TRUE),
                              !.clock = @ + backoff,
                              !.cycle = Cycle(r, acc, term, {"account_info", "terminal_info"})]
    ELSE
    LET info == IF r.program = "Runner.run" THEN {"account_info", "terminal_info"}
                ELSE {"account_info"}
    IN
    IF Breaker(acc)
    THEN [started EXCEPT !.consecutive_errors = ErrorsAfter(r, FALSE), !.halted = TRUE,
                         !.clock = @ + backoff,
                         !.cycle = Cycle(r, acc, term, info)]
    ELSE LET due == r.clock - r.last_sync >= SyncPeriod
             calls == info \cup (IF due THEN {"sync"} ELSE {})
                           \cup {"orders_get", "positions_get"}
         IN  [started EXCEPT
                 !.consecutive_errors = ErrorsAfter(r, FALSE),
                 !.halted = FALSE,
                 !.last_sync = IF due THEN r.clock ELSE @,
                 !.cycle = Cycle(r, acc, term, calls),
                 !.workers = [e \in RunEnabled |-> [pc |-> "ready", calls |-> 0]],
                 !.at = "passes"]

\* The loop's next iteration, or its end.
RunCycle ==
    /\ run.at = "top"
    /\ IF LoopEnds(run)
       THEN run' = [run EXCEPT !.at = "done"]
       ELSE \E acc \in AccountOffers, term \in BOOLEAN : run' = Iteration(run, acc, term)
    /\ UNCHANGED <<active, orders, positions, nextTicket, now, scenario, last, prev, call,
                   recenters, passes, synced>>

\* Runner.run calls update for one engine after the other; the pool of run_loop
\* runs every submitted pass at once (the engines are fewer than its 4 workers).
MayRun(r, e) ==
    /\ r.at = "passes"
    /\ e \in DOMAIN r.workers
    /\ r.program = "Runner.run" =>
          \A d \in DOMAIN r.workers : d < e => r.workers[d].pc \in {"returned", "raised"}

\* The pass of engine e starts a gateway call, under the lock when it has one.
PassCall(e) ==
    /\ MayRun(run, e)
    /\ run.workers[e].pc = "ready"
    /\ run.workers[e].calls < MaxCalls
    /\ UsesLock(run.program) => run.lock = None
    /\ run' = [run EXCEPT !.workers[e].pc = "calling",
                          !.inflight = @ \cup {e},
                          !.lock = IF UsesLock(run.program) THEN Some(e) ELSE @,
                          !.cycle.calls = @ \cup {"update"}]
    /\ UNCHANGED <<active, orders, positions, nextTicket, now, scenario, last, prev, call,
                   recenters, passes, synced>>

\* The gateway call of engine e returns.
PassReturn(e) ==
    /\ MayRun(run, e)
    /\ run.workers[e].pc = "calling"
    /\ run' = [run EXCEPT !.workers[e].pc = "ready",
                          !.workers[e].calls = @ + 1,
                          !.inflight = @ \ {e},
                          !.lock = IF UsesLock(run.program) THEN None ELSE @]
    /\ UNCHANGED <<active, orders, positions, nextTicket, now, scenario, last, prev, call,
                   recenters, passes, synced>>

\* The pass of engine e ends: update returns, or raises.
PassEnd(e) ==
    /\ MayRun(run, e)
    /\ run.workers[e].pc = "ready"
    /\ \E outcome \in {"returned", "raised"} :
          run' = [run EXCEPT !.workers[e].pc = outcome,
                             !.cycle.passed = @ \cup {e},
                             !.cycle.raised = IF outcome = "raised" THEN @ \cup {e} ELSE @]
    /\ UNCHANGED <<active, orders, positions, nextTicket, now, scenario, last, prev, call,
                   recenters, passes, synced>>

\* Every pass of the cycle is over.  Runner.run has caught what a pass raised;
\* run_loop collects the results, and result() raises what the pass raised.
CycleEnd ==
    /\ run.at = "passes"
    /\ \A e \in DOMAIN run.workers : run.workers[e].pc \in {"returned", "raised"}
    /\ run' = IF run.program = "run_loop" /\ run.cycle.raised # {}
              THEN [run EXCEPT !.at = "raised", !.workers = <<>>]
              ELSE [run EXCEPT !.at = "top", !.workers = <<>>,
                               !.clock = @ + Max(MinInterval, run.interval)]
    /\ UNCHANGED <<active, orders, positions, nextTicket, now, scenario, last, prev, call,
                   recenters, passes, synced>>

\* The run starts: the initial sync is done, the clock reads started_at.
InitRun ==
    /\ scenario = "runner"
    /\ active = <<>>
    /\ orders = <<>>
    /\ positions = <<>>
    /\ nextTicket = 1
    /\ now = Epoch
    /\ last = NoPass
    /\ prev = NoPass
    /\ call = NoCall
    /\ recenters = <<>>
    /\ passes = 0
    /\ synced = NoSync
    /\ \E program \in {"Runner.run", "run_loop"}, args \in RunArgs :
          run = [program |-> program, cycles |-> args.cycles,
                 max_seconds |-> args.max_seconds, interval |-> args.interval,
                 at |-> "top", i |-> 0, clock |-> 0, last_sync |-> 0,
                 consecutive_errors |-> 0, halted |-> FALSE, cycle |-> NoCycle,
                 workers |-> <<>>, inflight |-> {}, lock |-> None]

NextRun ==
    \/ RunCycle
    \/ \E e \in RunEnabled : PassCall(e)
    \/ \E e \in RunEnabled : PassReturn(e)
    \/ \E e \in RunEnabled : PassEnd(e)
    \/ CycleEnd

SpecRun == InitRun /\ [][NextRun]_vars

\* The interpreter keeps executing the loop and the passes, and the gateway
\* answers every call.
SpecRunFair == SpecRun /\ WF_vars(NextRun)

(***************************************************************************)
(* Properties of the fill step (update, step 3B), read off the outcome of  *)
(* the most recent pass.                                                   *)
(***************************************************************************)
\* Volume of the orders of `type` among the first n orders the pass placed.
PlacedVolume(r, n, type) ==
    SumSeq([i \in 1..n |-> IF r.placed[i].type = type THEN r.placed[i].volume ELSE 0])

\* The requests of kind `op` in a sequence of requests.
RequestsOf(reqs, op) == {i \in DOMAIN reqs : reqs[i].op = op}

\* The pending orders the gateway accepted among the requests of a pass.
AcceptedPlacements(r) == {i \in RequestsOf(r.reqs, "pending") : IsDone(r.reqs[i].rc)}

CappedPass(mode) ==
    /\ last.kind = "active"
    /\ last.before.max_net_vol # None
    /\ last.before.mode = mode

\* C1: in mode long (short) with a cap, no buy (sell) order placed by the fill
\* step brings long (short) position volume + pending buy (sell) volume of the
\* snapshot + the buy (sell) volume placed earlier in the pass + lot above the cap.
C1_OneSidedCap ==
    /\ CappedPass("long") =>
          \A i \in DOMAIN last.placed :
             last.placed[i].type = BUY_LIMIT =>
                last.exposure.long_vol + last.exposure.pending_buy_vol
                   + PlacedVolume(last, i - 1, BUY_LIMIT) + last.before.lot
                <= Val(last.before.max_net_vol)
    /\ CappedPass("short") =>
          \A i \in DOMAIN last.placed :
             last.placed[i].type = SELL_LIMIT =>
                last.exposure.short_vol + last.exposure.pending_sell_vol
                   + PlacedVolume(last, i - 1, SELL_LIMIT) + last.before.lot
                <= Val(last.before.max_net_vol)

\* The net volume the k-th placement of the pass met: the snapshot's net
\* volume adjusted by the orders placed before it.
NetBefore(r, k) ==
    r.exposure.net_vol + PlacedVolume(r, k - 1, BUY_LIMIT) - PlacedVolume(r, k - 1, SELL_LIMIT)

\* C2: in mode neutral with a cap, every order the fill step places satisfies
\* |net + lot| <= cap for a buy and |net - lot| <= cap for a sell, net being the
\* snapshot's net volume adjusted by the orders placed earlier in the pass.
C2_NeutralCap ==
    CappedPass("neutral") =>
       \A i \in DOMAIN last.placed :
          LET net == NetBefore(last, i)
              lot == last.before.lot
              cap == Val(last.before.max_net_vol)
          IN  /\ last.placed[i].type = BUY_LIMIT => Abs(net + lot) <= cap
              /\ last.placed[i].type = SELL_LIMIT => Abs(net - lot) <= cap

\* A neutral pass that placed orders on both sides and was stopped by the cap.
C2_Witness ==
    /\ CappedPass("neutral")
    /\ last.denied
    /\ \E i, j \in DOMAIN last.placed :
          last.placed[i].type = BUY_LIMIT /\ last.placed[j].type = SELL_LIMIT

\* C4: the pending orders newly placed in one pass, both sides together, are
\* at most max_new_orders_per_update.
C4_Throttle ==
    last.kind # "none" =>
       Cardinality(AcceptedPlacements(last)) <= last.before.max_new_orders_per_update

\* A pass that stopped placing because it had reached the limit.
C4_Witness ==
    /\ last.kind = "active"
    /\ last.throttled
    /\ Cardinality(AcceptedPlacements(last)) = last.before.max_new_orders_per_update

\* Two passes of one engine in succession on the same tick, nothing but the
\* first pass's own requests having touched the book in between.
TwicePassed ==
    /\ prev.kind # "none"
    /\ last.kind # "none"
    /\ prev.magic = last.magic
    /\ prev.tick # None
    /\ prev.tick = last.tick
    /\ prev.t = last.t

Quiet(r) == RequestsOf(r.reqs, "remove") = {} /\ RequestsOf(r.reqs, "pending") = {}

\* The first pass ran its fill loops to the end, the gateway carried out every
\* request it sent, and its hedge manager neither opened nor closed a position.
Settled(r) ==
    /\ ~r.throttled
    /\ ~r.denied
    /\ \A i \in DOMAIN r.reqs : IsDone(r.reqs[i].rc)
    /\ ~r.hedge.sent
    /\ ~r.hedge.closed

AllowSideReference(c) ==
    IF c.cap = None THEN TRUE
    ELSE CASE c.mode = "neutral" ->
                 IF c.side = "buy" THEN Abs(c.net_vol + c.lot) <= Val(c.cap)
                 ELSE Abs(c.net_vol - c.lot) <= Val(c.cap)
           [] c.mode = "long" ->
                 c.side = "buy" => c.long_vol + c.pending_buy_vol + c.lot <= Val(c.cap)
           [] c.mode = "short" ->
                 c.side = "sell" => c.short_vol + c.pending_sell_vol + c.lot <= Val(c.cap)

\* mode neutral, lot 0.05, cap 0.1, net 0.08
NeutralExample(c) ==
    c.fn = "_allow_side" /\ c.mode = "neutral" /\ c.lot = 5 /\ c.cap = Some(10) /\ c.net_vol = 8

\* C3: _allow_side equals the reference on every input: true without a cap;
\* neutral: buy iff |net+lot| <= cap, sell iff |net-lot| <= cap; long: buy iff
\* longVol+pendingBuyVol+lot <= cap, sell always; short: sell iff
\* shortVol+pendingSellVol+lot <= cap, buy always.  With mode neutral, lot 0.05,
\* cap 0.1 and net 0.08 a buy is denied and a sell is allowed.
C3_AllowSide ==
    /\ call.fn = "_allow_side" => call.result = AllowSideReference(call)
    /\ NeutralExample(call) => call.result = (call.side = "sell")

\* The buy of the example, denied.
C3_Witness == NeutralExample(call) /\ call.side = "buy" /\ ~call.result

(***************************************************************************)
(* Properties of the anchor and of the target grid.                        *)
(***************************************************************************)
\* d is within half a point of an integer multiple of step.
NearMultiple(d, step, point) ==
    \E k \in (d \div step) - 1 .. (d \div step) + 1 : 2 * Abs(d - k * step) <= point

\* C6: two anchor recenters of one engine, whatever the prices, the passes and
\* the configuration reloads between them, are at least recenter_cooldown
\* seconds apart (the cooldown configured when the second one happens).
C6_RecenterCooldown ==
    (last.kind = "active" /\ last.moved /\ Len(recenters[last.magic]) = 2) =>
       recenters[last.magic][2] - recenters[last.magic][1] >= last.s.recenter_cooldown

\* A second recenter of an engine whose cooldown a reload had shortened.
C6_Witness ==
    /\ last.kind = "active"
    /\ last.moved
    /\ Len(recenters[last.magic]) = 2
    /\ last.s.recenter_cooldown = 1

\* round((price - anchor) / step), ties to the even neighbour, for step > 0
IsRounded(k, d, step) ==
    \/ 2 * Abs(d - k * step) < step
    \/ (2 * Abs(d - k * step) = step /\ k % 2 = 0)

\* _get_grid_level returns anchor + round((price-anchor)/step)*step for
\* step > 0 and the price unchanged for step <= 0.
GridLevelAsSpecified ==
    call.fn = "_get_grid_level" =>
       IF call.step <= 0 THEN call.result = call.price
       ELSE \E k \in -MaxPrice .. MaxPrice :
               /\ IsRounded(k, call.price - call.anchor, call.step)
               /\ call.result = call.anchor + k * call.step

FirstPassAt50000 ==
    /\ last.kind = "active"
    /\ last.before.anchor = None
    /\ last.before.step = P(200)
    /\ last.before.mode = "neutral"
    /\ last.before.buy_window = 2
    /\ last.before.sell_window = 2
    /\ last.mid = P(50000)

\* C10 as stated: the pass sets the anchor to 50000 and generates the target
\* buys [49800, 49600] and the target sells [50200, 50400].
C10_Scenario ==
    FirstPassAt50000 =>
       /\ last.s.anchor = Some(P(50000))
       /\ last.target_buys = <<P(49800), P(49600)>>
       /\ last.target_sells = <<P(50200), P(50400)>>

\* C10: the pass sets the anchor to 50000; with bid = ask = 50000 it generates
\* the target buys [49800, 49600] and the target sells [50400, 50200]; with
\* bid < 50000 < ask the anchor level is a target on both sides: buys
\* [50000, 49800] and sells [50200, 50000].
C10_ScenarioBySpread ==
    FirstPassAt50000 =>
       LET tk == Val(last.tick) IN
       /\ last.s.anchor = Some(P(50000))
       /\ tk.bid = tk.ask =>
             /\ last.target_buys = <<P(49800), P(49600)>>
             /\ last.target_sells = <<P(50400), P(50200)>>
       /\ tk.bid < tk.ask =>
             /\ last.target_buys = <<P(50000), P(49800)>>
             /\ last.target_sells = <<P(50200), P(50000)>>

\* The first pass on a tick with a spread around 50000.
C10_Witness ==
    /\ FirstPassAt50000
    /\ Val(last.tick).bid < Val(last.tick).ask
    /\ last.placed # <<>>

(***************************************************************************)
(* Properties of the hedge manager.                                        *)
(***************************************************************************)
ShortVolume(magic) ==
    LET OfMagic(x) == x.magic = magic
    IN  VolumeOf(SelectSeq(positions, OfMagic), POSITION_SELL)

Hedging(s) == s.hedge_enabled /\ s.mode = "long" /\ s.max_net_vol # None

\* C7: the short (hedge) position volume of an engine never exceeds
\* max_net_vol * hedge_fraction, every hedge sell filling at the volume
\* submitted, that is after normalization to the volume step and minimum.
C7_HedgeShortCap ==
    \A magic \in DOMAIN active :
       Hedging(active[magic]) =>
          ShortVolume(magic) * active[magic].hedge_fraction.den
             <= Val(active[magic].max_net_vol) * active[magic].hedge_fraction.num

HedgeSells(r) == RequestsOf(r.reqs, "deal")

\* The series is too short for one of the two gates.
TooShort(s, rates) ==
    \/ Min(Len(rates), s.hedge_vol_lookback) < s.hedge_vol_window + GateSlack
    \/ Len(rates) < s.hedge_vol_base + s.hedge_vol_window + GateSlack

\* C8: a pass submits a hedge sell only if both the volatility gate and the
\* volume gate are true of the M1 series it read; with the series absent or
\* too short for either gate it submits none.
C8_HedgeGates ==
    last.kind = "active" =>
       /\ HedgeSells(last) # {} =>
             /\ last.hedge.rates # None
             /\ VolatilityGate(last.before, Bars(Val(last.hedge.rates)))
             /\ VolumeGate(last.before, Bars(Val(last.hedge.rates)))
       /\ (\/ last.hedge.rates = None
           \/ TooShort(last.before, Bars(Val(last.hedge.rates)))) => HedgeSells(last) = {}

\* A pass that submitted a hedge sell.
C8_Witness == last.kind = "active" /\ HedgeSells(last) # {}

(***************************************************************************)
(* Properties of the pass against a failing gateway.                       *)
(***************************************************************************)
\* The pass called the gateway for nothing, sent no request and left the
\* engine as it was.
NoOp(r) == ~r.polled /\ r.reqs = <<>> /\ r.s = r.before

\* The gateway answered one of the pass's order-sends with the market-closed code.
MarketClosedAnswer(r) == \E i \in DOMAIN r.reqs : r.reqs[i].rc = RC_MARKET_CLOSED

\* C11: a pass of an engine that is disabled, or whose pause has not run out,
\* is a no-op; and the pass that follows, within 300 seconds, a pass in which
\* an order-send was answered with the market-closed code is a no-op.
C11_NoOp ==
    /\ (last.kind # "none" /\ (~last.before.enabled \/ last.t < last.before.pause_until))
          => NoOp(last)
    /\ (/\ prev.kind # "none" /\ last.kind # "none" /\ prev.magic = last.magic
        /\ MarketClosedAnswer(prev)
        /\ last.t - prev.t < PauseMarketClosed) => NoOp(last)

\* The response codes that disable the engine, and the pause the others set.
Disabling(rc) == rc \in {10027, 10013, 10014}

PauseFor(rc) == IF rc = 10018 THEN 300 ELSE IF rc = 10004 THEN 1 ELSE 5

\* The handler's result as the mapping gives it.
Mapped(s, rc, t) ==
    IF Disabling(rc) THEN [s EXCEPT !.enabled = FALSE]
    ELSE [s EXCEPT !.pause_until = t + PauseFor(rc)]

\* The pass ended on a placement the gateway refused: the answer is the one
\* handed to _handle_order_error last.
EndsRefused(r) ==
    /\ r.kind = "active"
    /\ r.reqs # <<>>
    /\ r.reqs[Len(r.reqs)].op = "pending"
    /\ r.reqs[Len(r.reqs)].rc \in FailureCodes \ {RC_NONE}

\* C19: the handler maps a non-success response by its code: 10018 pauses
\* for 300 seconds, 10027, 10013 and 10014 disable the engine, 10004 pauses for
\* 1 second and every other code for 5 seconds; a pass that ends on a refused
\* placement ends in the state the mapping gives; and a pass of a disabled
\* engine leaves it disabled.
C19_ErrorMapping ==
    /\ call.fn = "_handle_order_error"
          => call.result = Mapped(call.before, call.retcode, call.t)
    /\ EndsRefused(last) =>
          LET rc == last.reqs[Len(last.reqs)].rc IN
          IF Disabling(rc) THEN ~last.s.enabled
          ELSE last.s.pause_until = last.t + PauseFor(rc)
    /\ (last.kind # "none" /\ ~last.before.enabled) => ~last.s.enabled

\* A placement was answered invalid-request, and the pass after it found the
\* engine disabled and left it so.
C19_Witness ==
    /\ prev.kind # "none" /\ EndsRefused(prev)
    /\ prev.reqs[Len(prev.reqs)].rc = RC_INVALID_REQUEST
    /\ last.kind = "disabled"
    /\ last.magic = prev.magic
    /\ ~last.s.enabled

\* A gateway request of the pass failed: no usable tick, or an order-send whose
\* result was null or not a success.
RequestFailed(r) ==
    \/ r.kind = "no_tick"
    \/ r.kind \in {"active", "stop"} /\ \E i \in DOMAIN r.reqs : ~IsDone(r.reqs[i].rc)

\* C20: a pass in which a gateway request failed ends with the engine paused
\* beyond the time of the pass, or disabled.
C20_FailurePauses ==
    (last.kind # "none" /\ RequestFailed(last))
        => (last.s.pause_until > last.t \/ ~last.s.enabled)

(***************************************************************************)
(* Properties of the manager.                                              *)
(***************************************************************************)
\* The runtime state of an engine that a configuration update must carry over.
RuntimeState(s) ==
    <<s.pause_until, s.anchor, s.last_recenter_time, s.last_hedge_time,
      s.last_hedge_entry_price, s.last_atr_value, s.last_atr_time>>

\* C12: a configuration update of an existing engine leaves its pause_until,
\* anchor, last-recenter time, last hedge time, last hedge entry price and ATR
\* cache (value and time) as they were, whatever fields the update changes.
C12_UpdateKeepsRuntime ==
    /\ call.fn = "_update_strategy"
          => RuntimeState(call.result) = RuntimeState(call.before)
    /\ synced.kind = "sync" =>
          \A magic \in DOMAIN synced.before \cap DOMAIN synced.after :
              RuntimeState(synced.after[magic]) = RuntimeState(synced.before[magic])

\* A sync updated an anchored engine that had opened a hedge.
SyncedAfterHedge ==
    /\ synced.kind = "sync"
    /\ \E magic \in DOMAIN synced.before \cap DOMAIN synced.after :
          /\ synced.after[magic] # synced.before[magic]
          /\ synced.before[magic].last_hedge_entry_price # None
          /\ synced.before[magic].anchor # None

\* An update changed the symbol of a paused, anchored engine with a recenter, a
\* hedge and an ATR reading behind it.
C12_Witness ==
    /\ call.fn = "_update_strategy"
    /\ call.result.symbol # call.before.symbol
    /\ call.before.pause_until > 0 /\ call.before.anchor # None
    /\ call.before.last_hedge_entry_price # None /\ call.before.last_atr_value # None
    /\ call.before.last_recenter_time > 0 /\ call.before.last_hedge_time > 0

\* The magics a configuration set names.
MagicsOf(configs) == {configs[j].magic : j \in DOMAIN configs}

\* The pending orders of `magic` in the book the sync found, on the engine's symbol.
StaleOrders(book, magic, symbol) ==
    {j \in DOMAIN book : book[j].magic = magic /\ book[j].symbol = symbol}

\* The sync submitted a cancel for order j of the book it found.
CancelSubmitted(y, j) ==
    \E i \in DOMAIN y.reqs : y.reqs[i].op = "remove" /\ y.reqs[i].ticket = y.book[j].ticket

\* C13: after a sync applied a changed configuration set the active map holds
\* an engine for exactly the magics of the set; for every magic the set
\* introduced a cancel was submitted for each of its stale pending orders, and
\* for every magic the set no longer names the engine is gone and a cancel was
\* submitted for each of its pending orders.
C13_SyncExact ==
    synced.kind = "sync" =>
        /\ DOMAIN synced.after = MagicsOf(synced.configs)
        /\ \A j \in DOMAIN synced.configs :
              LET cfg == synced.configs[j] IN
              cfg.magic \notin DOMAIN synced.before =>
                  \A k \in StaleOrders(synced.book, cfg.magic, cfg.symbol) :
                      CancelSubmitted(synced, k)
        /\ \A magic \in DOMAIN synced.before \ MagicsOf(synced.configs) :
              \A k \in StaleOrders(synced.book, magic, synced.before[magic].symbol) :
                  CancelSubmitted(synced, k)

(***************************************************************************)
(* Properties of the scheduling loop.                                      *)
(***************************************************************************)
\* The loop has used no more than max(1, cycles) iterations, whatever they were
\* spent on, and the iteration under way started before max_seconds had elapsed.
Bounded ==
    /\ run.i <= (IF run.cycles > 1 THEN run.cycles ELSE 1)
    /\ (run.i > 0 /\ run.max_seconds > 0) => run.cycle.began < run.max_seconds

\* The run is over: the loop ended, or an exception left it.
Terminated == run.at \in {"done", "raised"}

\* C14: the run terminates; it executes at most max(1, cycles) iterations, the
\* iterations spent on the circuit breaker and on connectivity failures
\* included, and with max_seconds > 0 it starts no iteration once max_seconds
\* have elapsed since the start.
C14_Terminates == []Bounded /\ <>Terminated

\* A run of MaxCycles cycles ended after exactly that many iterations, the last
\* of them spent on the circuit breaker, one before on something else.
C14_Witness ==
    /\ run.at = "done"
    /\ run.cycles = MaxCycles /\ run.i = MaxCycles
    /\ run.max_seconds = 0
    /\ run.halted /\ ~run.cycle.was_halted

\* A run ended on max_seconds with cycles to spare.
EndedOnTime ==
    run.at = "done" /\ run.max_seconds > 0 /\ run.clock >= run.max_seconds /\ run.i < run.cycles

\* A run ended on the tenth connectivity failure in a row.
EndedOnErrors ==
    run.at = "done" /\ run.consecutive_errors = MaxConsecutiveErrors /\ run.i < run.cycles

\* The iteration on record read a margin level in the breaker's range.
MarginLow == run.i > 0 /\ run.cycle.acc # None
                /\ Val(run.cycle.acc) > 0 /\ Val(run.cycle.acc) < 200

\* The iteration on record read a margin level of 0 or of at least 200.
MarginFine == run.i > 0 /\ run.cycle.acc # None
                 /\ (Val(run.cycle.acc) = 0 \/ Val(run.cycle.acc) >= 200)

\* The iteration on record is over.
CycleOver == run.i > 0 /\ run.at \in {"top", "done", "raised"}

\* In a cycle with a low margin level nothing runs but the reading of the account.
HaltsAll ==
    MarginLow =>
        /\ run.at # "passes"
        /\ run.cycle.passed = {}
        /\ run.cycle.calls \subseteq {"account_info", "terminal_info"}

Halted == CycleOver /\ MarginLow /\ run.halted

\* C16: when the pass of one engine raises, every other enabled engine still
\* gets its pass in that cycle, and the loop goes on to its next cycle.
C16_Isolation ==
    (CycleOver /\ run.cycle.raised # {}) =>
        /\ run.cycle.passed = RunEnabled
        /\ run.at # "raised"

\* In Runner.run the pass of one engine raised, the other engine's pass
\* returned and the loop went on.
IsolatedInRunner ==
    /\ run.program = "Runner.run" /\ run.at = "top"
    /\ run.cycle.raised = {1} /\ run.cycle.passed = RunEnabled

\* C17: no two gateway calls are in progress at once, and a call in progress
\* is made by the holder of the shared lock.
C17_Serialized ==
    /\ Cardinality(run.inflight) <= 1
    /\ \A e \in run.inflight : run.lock = Some(e)

\* In Runner.run a pass is inside a gateway call, holding the lock.
CallUnderLock ==
    run.program = "Runner.run" /\ run.inflight = {2} /\ run.lock = Some(2)

\* In run_loop the passes of both engines are inside a gateway call.
TwoCallsAtOnce == run.program = "run_loop" /\ run.inflight = {1, 2}

(***************************************************************************)
(* Ownership.                                                              *)
(***************************************************************************)
\* The entries of a book that carry this magic and this symbol.
EntriesOf(book, magic, symbol) ==
    {j \in DOMAIN book : book[j].magic = magic /\ book[j].symbol = symbol}

\* A request that acts on an existing order or position.
ActsOnTicket(q) == q.op \in {"remove", "close", "sltp"}

\* The order or position the request acts on is in the book under the
\* sender's magic and symbol.
OwnTarget(q, os, ps) ==
    IF q.op = "remove"
    THEN \E j \in EntriesOf(os, q.magic, q.symbol) : os[j].ticket = q.ticket
    ELSE \E j \in EntriesOf(ps, q.magic, q.symbol) : ps[j].ticket = q.ticket

\* The volumes of an engine counted over its own entries of the books.
OwnVolumes(s, os, ps) ==
    LET Mine(x) == x.magic = s.magic /\ x.symbol = s.symbol
        Held(type) ==
            SumSeq([j \in DOMAIN ps |->
                       IF Mine(ps[j]) /\ ps[j].type = type THEN ps[j].volume ELSE 0])
        Pending(type) ==
            SumSeq([j \in DOMAIN os |->
                       IF Mine(os[j]) /\ os[j].type = type THEN os[j].volume_current ELSE 0])
    IN  [long_vol |-> Held(POSITION_BUY), short_vol |-> Held(POSITION_SELL),
         pending_buy_vol |-> Pending(BUY_LIMIT), pending_sell_vol |-> Pending(SELL_LIMIT)]

\* What a pass did, against the books it started from.
PassOwnOnly(r, os, ps) ==
    /\ \A i \in DOMAIN r.reqs :
          /\ r.reqs[i].magic = r.before.magic /\ r.reqs[i].symbol = r.before.symbol
          /\ ActsOnTicket(r.reqs[i]) => OwnTarget(r.reqs[i], os, ps)
    /\ r.kind = "active" =>
          LET own == OwnVolumes(r.before, os, ps) IN
          /\ r.exposure.long_vol = own.long_vol
          /\ r.exposure.short_vol = own.short_vol
          /\ r.exposure.pending_buy_vol = own.pending_buy_vol
          /\ r.exposure.pending_sell_vol = own.pending_sell_vol
          /\ r.exposure.net_vol = (own.long_vol + own.pending_buy_vol)
                                     - (own.short_vol + own.pending_sell_vol)
          /\ r.hedge.ran => (r.hedge.long_vol = own.long_vol
                               /\ r.hedge.short_vol = own.short_vol)

\* What a sync did through clear_old_orders, against the book it started from.
SyncOwnOnly(y, os, ps) ==
    \A i \in DOMAIN y.reqs :
        /\ y.reqs[i].magic \in DOMAIN y.before \cup DOMAIN y.after
        /\ ActsOnTicket(y.reqs[i]) => OwnTarget(y.reqs[i], os, ps)

\* C18: every cancel, close and stop-loss modification an engine sends, in a
\* pass (trim, hedge controller, stop) or through clear_old_orders, is for an
\* order or position of its own magic and symbol, and the exposure a pass and
\* its hedge controller count is the exposure of the engine's own orders and
\* positions, whatever else the books hold.
C18_OwnOnly ==
    [][/\ passes' # passes => PassOwnOnly(last', orders, positions)
       /\ (synced' # synced /\ synced'.kind = "sync")
             => SyncOwnOnly(synced', orders, positions)]_vars

\* A pass of the hedging engine cancelled its stale order, moved the stop of
\* its short and closed it, while the books still hold the other magic's order
\* and short and the other symbol's order and positions.
C18_Witness ==
    /\ last.kind = "active" /\ last.magic = 1
    /\ \E i \in DOMAIN last.reqs : last.reqs[i].op = "remove" /\ IsDone(last.reqs[i].rc)
    /\ \E i \in DOMAIN last.reqs : last.reqs[i].op = "sltp"
    /\ \E i \in DOMAIN last.reqs : last.reqs[i].op = "close"
    /\ EntriesOf(orders, 2, "EURUSD") # {} /\ EntriesOf(orders, 1, "GBPUSD") # {}
    /\ Cardinality(EntriesOf(positions, 1, "GBPUSD")) = 2
    /\ EntriesOf(positions, 2, "EURUSD") # {}

\* A sync dropped engine 1 and cancelled its orders through clear_old_orders.
SyncCancelled ==
    /\ synced.kind = "sync" /\ 1 \notin DOMAIN synced.after
    /\ \E i \in DOMAIN synced.reqs : synced.reqs[i].magic = 1

(***************************************************************************)
(* C21: one placement attempt submits at most three times.                 *)
(***************************************************************************)
\* The answers after which the request was sent again.
ResentAfter(reqs, rc) == {j \in 1 .. Len(reqs) - 1 : reqs[j].rc = rc}

SubmitsBounded(type, price, r) ==
    /\ Len(r.reqs) \in 1 .. 3
    /\ \A j \in DOMAIN r.reqs :
          /\ r.reqs[j].op = "pending" /\ r.reqs[j].type = type
          /\ r.reqs[j].price = price
    /\ r.reqs[1].filling
    /\ \A j \in 1 .. Len(r.reqs) - 1 :
          /\ r.reqs[j].rc \in {RC_UNSUPPORTED_FILLING, RC_REQUOTE}
          /\ r.reqs[j].rc = RC_UNSUPPORTED_FILLING => ~r.reqs[j + 1].filling
    /\ Cardinality(ResentAfter(r.reqs, RC_UNSUPPORTED_FILLING)) <= 1
    /\ Cardinality(ResentAfter(r.reqs, RC_REQUOTE)) <= 1

\* C21: a placement of a buy or of a sell limit sends its request at least
\* once and at most three times, always for the same level; it sends it again
\* only after the answer 10030 (then without the filling flag) or 10004, and
\* after each of the two at most once.
C21_AtMostThree ==
    call.fn \in {"_place_buy_order", "_place_sell_order"}
        => SubmitsBounded(call.type, call.price, call.result)

\* A buy and no less a sell placement can take all three submits: 10030, then
\* 10004, then any answer.
C21_Witness ==
    /\ call.fn \in {"_place_buy_order", "_place_sell_order"}
    /\ Len(call.result.reqs) = 3
    /\ call.result.reqs[1].rc = RC_UNSUPPORTED_FILLING
    /\ call.result.reqs[2].rc = RC_REQUOTE
    /\ call.result.reqs[3].rc = RC_REQUOTE
    /\ ~call.result.ok

(***************************************************************************)
(* C22: the connectivity failures of Runner.run.                           *)
(***************************************************************************)
\* The iteration on record failed to get the account or the terminal information.
FetchFailed == run.i > 0 /\ (run.cycle.acc = None \/ ~run.cycle.term)

\* The loop was left although neither the cycles nor max_seconds were used up.
LeftEarly == run.at = "done" /\ ~LoopEnds(run)

\* C22: Runner.run ends with the tenth iteration in a row that failed to get
\* the account or the terminal information, and leaves its loop before the
\* cycles or max_seconds are used up in no other case; its failure counter
\* is the length of that row, 0 after an iteration that got both; and an
\* iteration that failed runs no pass, syncs nothing and fetches no book.
C22_HaltsOnTenth ==
    run.program = "Runner.run" =>
        /\ run.consecutive_errors = run.cycle.streak
        /\ run.cycle.streak <= 10
        /\ run.cycle.streak = 10 => run.at = "done"
        /\ LeftEarly => run.cycle.streak = 10
        /\ (run.i > 0 /\ ~FetchFailed) => run.consecutive_errors = 0
        /\ FetchFailed =>
              /\ run.at \in {"top", "done"}
              /\ run.cycle.passed = {}
              /\ run.cycle.calls = {"account_info", "terminal_info"}

\* Runner.run left its loop on the tenth failure in a row, in the eleventh
\* iteration of twelve: the first iteration had got both.
C22_Witness ==
    /\ run.program = "Runner.run" /\ LeftEarly
    /\ run.cycle.streak = 10 /\ run.i = 11 /\ run.cycles = 12

\* Runner.run went through ten failed iterations, not in a row, and goes on.
FailuresApart ==
    /\ run.program = "Runner.run" /\ run.at = "top"
    /\ run.i = 11 /\ run.cycle.streak = 9 /\ FetchFailed

(***************************************************************************)
(* C23: the passes of a cycle and its batch fetch.                         *)
(***************************************************************************)
TicketsOf(seq) == {seq[j].ticket : j \in DOMAIN seq}

\* The pass r of an engine read its orders and positions off the lists
\* all_orders and all_positions: its exposure is theirs, and every cancel,
\* close and stop-loss move names a ticket of theirs.
OnLists(r, all_orders, all_positions) ==
    LET Own(x) == x.magic = r.before.magic /\ x.symbol = r.before.symbol
        my_orders == SelectSeq(all_orders, Own)
        my_positions == SelectSeq(all_positions, Own)
    IN  /\ r.kind = "active" => r.exposure = CalcExposure(my_positions, my_orders)
        /\ \A j \in DOMAIN r.reqs :
              /\ r.reqs[j].op = "remove" => r.reqs[j].ticket \in TicketsOf(my_orders)
              /\ r.reqs[j].op \in {"close", "sltp"}
                    => r.reqs[j].ticket \in TicketsOf(my_positions)

\* The pass r cancelled what the book held for its engine when it ran, up to
\* the first cancel answered 10018.
ClearsBook(r, book_orders) ==
    LET Own(x) == x.magic = r.before.magic /\ x.symbol = r.before.symbol
        mine == SelectSeq(book_orders, Own)
    IN  /\ Len(r.reqs) <= Len(mine)
        /\ \A j \in DOMAIN r.reqs :
              r.reqs[j].op = "remove" /\ r.reqs[j].ticket = mine[j].ticket
        /\ Len(r.reqs) < Len(mine) => r.reqs # <<>> /\ ~IsDone(r.reqs[Len(r.reqs)].rc)

\* The next batch fetch is made when every pass of the cycle is over.
FetchAfterPasses == run'.n # run.n => run.todo = {}

\* C23 as stated: no pass reads the orders or positions from the gateway
\* itself, every pass works on the lists of the batch fetch of its cycle, and
\* the next batch fetch is made when every pass of the cycle is over.
C23_SingleFetch ==
    [][/\ passes' # passes =>
            /\ last'.fetches = {}
            /\ OnLists(last', run.all_orders, run.all_positions)
       /\ FetchAfterPasses]_vars

\* C23: as above for every pass but the one that ends in the out-of-range
\* stop: that pass reads the symbol's orders itself and cancels what the book
\* holds by then.
C23_SingleFetchButStop ==
    [][/\ (passes' # passes /\ last'.kind # "stop") =>
            /\ last'.fetches = {}
            /\ OnLists(last', run.all_orders, run.all_positions)
       /\ (passes' # passes /\ last'.kind = "stop") =>
            /\ last'.fetches = {"orders_get"}
            /\ ClearsBook(last', orders)
       /\ FetchAfterPasses]_vars

\* An active pass ran on lists the book had moved away from: the order it
\* counts as pending, and cancels, had been filled since the fetch.
C23_Witness ==
    /\ run.at = "cycle" /\ run.drifted
    /\ last.kind = "active" /\ last.magic = 1
    /\ last.exposure.pending_buy_vol = 5
    /\ \E j \in DOMAIN last.reqs : last.reqs[j].op = "remove" /\ last.reqs[j].ticket = 1
    /\ 1 \in TicketsOf(positions)

\* A stopping pass cancelled less than the batch fetch had listed for it.
StopOnFresherBook ==
    /\ run.at = "cycle" /\ run.drifted
    /\ last.kind = "stop" /\ last.magic = 2
    /\ Len(last.reqs) = 1 /\ IsDone(last.reqs[1].rc)
    /\ Cardinality({j \in DOMAIN run.all_orders : run.all_orders[j].magic = 2}) = 2

(***************************************************************************)
(* C24: the price range.                                                   *)
(***************************************************************************)
\* The pass r got as far as the range check and found the mid price outside
\* [min_p, max_p].
OutOfRange(r) ==
    /\ r.kind \in {"stop", "freeze", "active"}
    /\ LET mid_price == (Val(r.tick).bid + Val(r.tick).ask) \div 2
       IN  mid_price < r.before.min_price \/ mid_price > r.before.max_price

\* The pass r sent a cancel for every pending order the book held for its engine.
CancelsAll(r, book_orders) ==
    \A k \in DOMAIN book_orders :
        (book_orders[k].magic = r.before.magic /\ book_orders[k].symbol = r.before.symbol)
            => \E j \in DOMAIN r.reqs :
                   r.reqs[j].op = "remove" /\ r.reqs[j].ticket = book_orders[k].ticket

\* The stop: the engine is disabled and nothing but cancels is sent.
StopsEngine(r) ==
    /\ r.kind = "stop"
    /\ ~r.s.enabled
    /\ \A j \in DOMAIN r.reqs : r.reqs[j].op = "remove"

\* The freeze: nothing is sent and the engine is as it was.
Freezes(r) ==
    /\ r.kind = "freeze"
    /\ r.reqs = <<>>
    /\ r.s.anchor = r.before.anchor
    /\ r.s = r.before

\* C24: a pass that finds the mid price outside [min_p, max_p] ends, with
\* out_of_range_action = stop, with the engine disabled and a cancel submitted
\* for every pending order of the engine's symbol and magic; with freeze it
\* submits nothing and leaves the anchor as it was.
C24_OutOfRange ==
    [][(passes' # passes /\ OutOfRange(last')) =>
          /\ last'.before.out_of_range_action = "stop"
                => StopsEngine(last') /\ CancelsAll(last', orders)
          /\ last'.before.out_of_range_action = "freeze" => Freezes(last')]_vars

\* The same without the demand that every order gets its cancel.
OutOfRangeButCancels ==
    [][(passes' # passes /\ OutOfRange(last')) =>
          /\ last'.before.out_of_range_action = "stop" => StopsEngine(last')
          /\ last'.before.out_of_range_action = "freeze" => Freezes(last')]_vars

\* A stop left an order of the engine in the book without a cancel: the
\* gateway answered the first cancel with 10018.
StopLeftOrders ==
    /\ last.kind = "stop" /\ ~last.s.enabled
    /\ Len(last.reqs) = 1 /\ last.reqs[1].rc = RC_MARKET_CLOSED
    /\ Cardinality({k \in DOMAIN orders : orders[k].magic = last.magic}) = 2

\* A pass froze an engine that had its anchor, with its orders in the book.
Frozen ==
    /\ last.kind = "freeze" /\ last.before.anchor # None
    /\ \E k \in DOMAIN orders : orders[k].magic = last.magic

(***************************************************************************)
(* C25: the trim.                                                          *)
(***************************************************************************)
\* The tickets of the engine's limit orders in the lists handed to the pass r
\* that are off its targets, or on the side its mode has no use for.
OffTargets(r, all_orders) ==
    {all_orders[k].ticket : k \in
        {j \in DOMAIN all_orders :
            /\ all_orders[j].magic = r.before.magic
            /\ all_orders[j].symbol = r.before.symbol
            /\ all_orders[j].type \in {BUY_LIMIT, SELL_LIMIT}
            /\ \/ NormalizePrice(r.s, all_orders[j].price_open)
                      \notin Range(r.target_buys) \cup Range(r.target_sells)
               \/ all_orders[j].type = BUY_LIMIT /\ r.before.mode = "short"
               \/ all_orders[j].type = SELL_LIMIT /\ r.before.mode = "long"}}

\* The tickets the pass r sent a cancel for.
Cancelled(r) == {r.reqs[j].ticket : j \in RequestsOf(r.reqs, "remove")}

\* C25: an active pass submits a cancel for every pending limit order of its
\* engine whose normalized price is not among the targets or whose side the
\* mode disallows (buy limit in mode short, sell limit in mode long), and for
\* no other order.
C25_Trim ==
    [][(passes' # passes /\ last'.kind = "active")
          => Cancelled(last') = OffTargets(last', orders)]_vars

\* In mode short a pass cancelled the buy limit that sits on a sell target and
\* the stale buy limit, and left the sell limit and the stop order alone.
C25_Witness ==
    /\ last.kind = "active" /\ last.before.mode = "short"
    /\ P(1000) \in Range(last.target_sells)
    /\ Cancelled(last) = {1, 2}
    /\ {3, 4} \subseteq TicketsOf(orders)

\* In mode long a pass cancelled the sell limit and the stale buy limit.
TrimmedLong ==
    /\ last.kind = "active" /\ last.before.mode = "long"
    /\ Cancelled(last) = {2, 3}

(***************************************************************************)
(* C26: the fill after a denial of the risk gate.                          *)
(***************************************************************************)
\* The requests the fill step of pass r sent after its k-th denial.
SentAfter(r, k) == {j \in DOMAIN r.fill_reqs : j > r.denials[k].after}

\* C26 as stated: once the gate has denied a candidate, the pass places
\* nothing more.
C26_StopsOnDenial ==
    last.kind = "active" =>
        \A k \in DOMAIN last.denials : SentAfter(last, k) = {}

\* C26: once the gate has denied a buy candidate the pass places no further
\* buy order, and once it has denied a sell candidate it places nothing more;
\* the sell candidates are tried after the buys, a denied buy or not.
C26_StopsSideOnDenial ==
    last.kind = "active" =>
        \A k \in DOMAIN last.denials :
            /\ last.denials[k].side = "buy" =>
                  \A j \in SentAfter(last, k) : last.fill_reqs[j].type = SELL_LIMIT
            /\ last.denials[k].side = "sell" => SentAfter(last, k) = {}

\* The gate denied the second buy of a neutral pass, and the pass went on to
\* place two sells.
C26_Witness ==
    /\ CappedPass("neutral")
    /\ Len(last.denials) = 1
    /\ last.denials[1].side = "buy" /\ last.denials[1].after = 1
    /\ Cardinality({j \in SentAfter(last, 1) :
                       last.fill_reqs[j].type = SELL_LIMIT /\ IsDone(last.fill_reqs[j].rc)}) = 2

\* The gate denied a sell.
SellDenied ==
    /\ last.kind = "active"
    /\ \E k \in DOMAIN last.denials : last.denials[k].side = "sell"

(***************************************************************************)
(* C27: the levels the fill leaves alone.                                  *)
(***************************************************************************)
\* The level of request q is taken: the lists all_orders, all_positions hold
\* an order of the engine s of q's side at q's price, or a position of the
\* engine closer to it than a tenth of the step.
Covered(s, q, all_orders, all_positions) ==
    \/ \E k \in DOMAIN all_orders :
          /\ all_orders[k].magic = s.magic /\ all_orders[k].symbol = s.symbol
          /\ all_orders[k].type = q.type
          /\ NormalizePrice(s, all_orders[k].price_open) = q.price
    \/ \E k \in DOMAIN all_positions :
          /\ all_positions[k].magic = s.magic /\ all_positions[k].symbol = s.symbol
          /\ 10 * Abs(NormalizePrice(s, all_positions[k].price_open) - q.price) < s.step

\* The level of request q is too close to the price on the other side.
TooClose(s, q, tick) ==
    LET opposing == IF q.type = BUY_LIMIT THEN tick.ask ELSE tick.bid
        least == IF s.stop_level > 10 * s.point THEN s.stop_level ELSE 10 * s.point
    IN  Abs(q.price - opposing) < least

\* No engine has two pending orders of one side at one price.
NoTwins ==
    \A j, k \in DOMAIN orders :
        (/\ j # k
         /\ orders[j].magic = orders[k].magic /\ orders[j].symbol = orders[k].symbol
         /\ orders[j].type = orders[k].type)
            => orders[j].price_open # orders[k].price_open

LevelAt(r, side, i) ==
    NormalizePrice(r.s, IF side = "buy" THEN Val(r.s.anchor) - i * r.s.step
                        ELSE Val(r.s.anchor) + i * r.s.step)

\* The levels update walks on a side: window + recenter_steps + 5 of them.
Walked(r, side) ==
    0 .. (IF side = "buy" THEN r.s.buy_window ELSE r.s.sell_window)
             + r.s.recenter_steps + 5 - 1

\* A level passes the filters of its side.
PassesFilters(r, side, level) ==
    IF side = "buy" THEN level < Val(r.tick).ask /\ level >= r.s.min_price
    ELSE level > Val(r.tick).bid /\ level <= r.s.max_price

\* The targets of a side are levels of the grid that pass the filters, at
\* most `window` of them, and none of them is kept while a level nearer the
\* anchor that passes the filters is not; in range and with the mode for the
\* side, they are kept up to the window.
TargetsRight(r, side, targets, window) ==
    LET passing == {i \in Walked(r, side) : PassesFilters(r, side, LevelAt(r, side, i))}
        kept == {i \in Walked(r, side) : LevelAt(r, side, i) \in Range(targets)}
    IN  /\ Len(targets) <= window
        /\ \A j \in DOMAIN targets :
              /\ PassesFilters(r, side, targets[j])
              /\ \E i \in Walked(r, side) : targets[j] = LevelAt(r, side, i)
        /\ \A i \in kept : \A n \in passing : n < i => n \in kept
        /\ (/\ r.s.min_price <= r.mid /\ r.mid <= r.s.max_price
            /\ r.s.mode \in {"neutral", IF side = "buy" THEN "long" ELSE "short"})
              => Cardinality(Range(targets)) = Min(window, Cardinality(passing))

\* C28: in an active pass each buy target is below the ask and at least
\* min_p, each sell target above the bid and at most max_p; the lists hold at
\* most buy_window and sell_window levels, the ones nearest the anchor that
\* pass the filters; mode long has no sell targets, mode short no buy targets.
C28_Targets ==
    last.kind = "active" =>
        /\ TargetsRight(last, "buy", last.target_buys, last.s.buy_window)
        /\ TargetsRight(last, "sell", last.target_sells, last.s.sell_window)
        /\ last.s.mode = "long" => last.target_sells = <<>>
        /\ last.s.mode = "short" => last.target_buys = <<>>

\* With the market a step above the anchor the sells start a step above the
\* anchor and the buys at the anchor.
C28_Witness ==
    /\ last.kind = "active" /\ last.s.mode = "neutral"
    /\ last.s.anchor = Some(P(1000)) /\ Val(last.tick).bid = P(1009)
    /\ last.target_sells = <<P(1020), P(1010)>>
    /\ last.target_buys = <<P(1000), P(990)>>

\* The range cut both lists down to the anchor level.
TargetsInRange ==
    /\ last.kind = "active" /\ last.s.min_price = P(995)
    /\ last.target_buys = <<P(1000)>> /\ last.target_sells = <<P(1000)>>

(***************************************************************************)
(* C29: the break-even step.                                               *)
(***************************************************************************)
\* The stop-loss move q of pass r is the break-even move of a short position
\* of the engine in all_positions: to entry + be_buffer_points * point, the
\* position at least be_trigger_steps * step in profit at the ask, and with
\* no stop at or below that value.
BreakEvenMove(r, q, all_positions) ==
    \E k \in DOMAIN all_positions :
        LET pos == all_positions[k] IN
        /\ pos.ticket = q.ticket
        /\ pos.type = POSITION_SELL
        /\ pos.magic = r.before.magic /\ pos.symbol = r.before.symbol
        /\ q.sl = NormalizePrice(r.before,
                                 pos.price_open + r.before.be_buffer_points * r.before.point)
        /\ pos.price_open - Val(r.tick).ask >= r.before.be_trigger_steps * r.before.step
        /\ pos.sl = 0 \/ pos.sl > q.sl

\* No stop-loss of a short position goes up, or away.
StopsNotRaised ==
    \A k \in DOMAIN positions : \A n \in DOMAIN positions' :
        (/\ positions[k].ticket = positions'[n].ticket
         /\ positions[k].type = POSITION_SELL
         /\ positions[k].sl # 0)
            => positions'[n].sl # 0 /\ positions'[n].sl <= positions[k].sl

\* C29: every stop-loss move of a pass is the move of a short position of the
\* engine to entry + be_buffer_points * point, made when the position is at
\* least be_trigger_steps * step in profit and has no stop at or below that
\* value; and the stop-loss of a short position is never raised.
C29_BreakEven ==
    [][/\ passes' # passes =>
            \A j \in RequestsOf(last'.reqs, "sltp") :
                BreakEvenMove(last', last'.reqs[j], positions)
       /\ StopsNotRaised]_vars

\* A pass moved the loose stop (1060) of the short that is exactly one step in
\* profit down to 1031, and gave the other short its first stop.
C29_Witness ==
    /\ last.kind = "active"
    /\ Cardinality(RequestsOf(last.reqs, "sltp")) = 2
    /\ \E j \in RequestsOf(last.reqs, "sltp") :
          last.reqs[j].ticket = 2 /\ last.reqs[j].sl = P(1031)
    /\ \E k \in DOMAIN positions : positions[k].ticket = 3 /\ positions[k].sl = P(1040)

\* A pass left the tighter stop of a short in profit alone.
TighterStopKept ==
    /\ last.kind = "active" /\ last.hedge.ran
    /\ Val(last.tick).ask = P(1001)
    /\ RequestsOf(last.reqs, "sltp") = {}
    /\ \E k \in DOMAIN positions :
          positions[k].price_open = P(1020) /\ positions[k].sl = P(1030)

(***************************************************************************)
(* C30: a pass on a stale tick.                                            *)
(***************************************************************************)
\* Pass r of an enabled engine out of its pause read a tick with a bid,
\* stamped more than 600 seconds before the clock.
StaleTick(r) ==
    /\ r.before.enabled
    /\ ~(r.t < r.before.pause_until)
    /\ r.tick # None
    /\ Val(r.tick).bid > 0
    /\ r.t - Val(r.tick).time > 600

\* C30: a pass whose tick is older than 600 seconds sends no request (no
\* cancel, no placement, no hedge deal or stop move), reads no book, leaves
\* orders and positions as they are and leaves pause_until, enabled, anchor
\* and step of its engine unchanged; the pass of the engine that comes
\* straight after it reads the tick again.
C30_StaleTick ==
    [][/\ (passes' # passes /\ StaleTick(last')) =>
            /\ last'.reqs = <<>>
            /\ last'.fetches = {}
            /\ orders' = orders /\ positions' = positions
            /\ \A f \in {"pause_until", "enabled", "anchor", "step"} :
                  active'[last'.magic][f] = active[last'.magic][f]
       /\ (passes' # passes /\ last # NoPass /\ last'.magic = last.magic) =>
            (StaleTick(last) => last'.polled)]_vars

\* An engine out of range with action stop, an order in the book: the pass on
\* a tick 601 seconds old left order and engine alone, and the pass after it,
\* on a tick 600 seconds old, stopped the engine and cancelled the order.
C30_Witness ==
    /\ prev # NoPass /\ StaleTick(prev)
    /\ prev.t - Val(prev.tick).time = 601
    /\ prev.reqs = <<>>
    /\ last.kind = "stop" /\ last.magic = prev.magic
    /\ last.t - Val(last.tick).time = 600
    /\ RequestsOf(last.reqs, "remove") # {}
    /\ ~active[last.magic].enabled

\* A hedging engine due a hedge let the stale tick pass without a deal.
StaleHedgeSkipped ==
    /\ prev # NoPass /\ StaleTick(prev) /\ prev.before.hedge_enabled
    /\ last.kind = "active" /\ last.magic = prev.magic
    /\ RequestsOf(last.reqs, "deal") # {}

(***************************************************************************)
(* C31: the adaptive step.                                                 *)
(***************************************************************************)
\* Pass r computed a candidate step that differs from the step by no more
\* than atr_change_threshold of it.
WithinThreshold(r) ==
    /\ r.new_step # None
    /\ Abs(Val(r.new_step) - r.before.step) * r.before.atr_change_threshold.den
          <= r.before.atr_change_threshold.num * r.before.step

\* step lies in [base_step * min_step_mult, base_step * max_step_mult] of engine s.
InStepRange(s, step) ==
    /\ s.base_step * s.min_step_mult.num <= step * s.min_step_mult.den
    /\ step * s.max_step_mult.den <= s.base_step * s.max_step_mult.num

\* min_step_mult <= max_step_mult
RangeInOrder(s) ==
    s.min_step_mult.num * s.max_step_mult.den <= s.max_step_mult.num * s.min_step_mult.den

\* With min_step_mult > 0 the step of every engine is strictly positive.
StepPositive ==
    \A magic \in DOMAIN active :
        active[magic].min_step_mult.num > 0 => active[magic].step > 0

\* C31 as stated: a pass whose candidate is within the threshold leaves the
\* step unchanged, a pass that changes the step leaves it in
\* [base_step * min_step_mult, base_step * max_step_mult], and the step stays
\* strictly positive.
C31_AdaptiveStep ==
    /\ [][passes' # passes =>
            /\ WithinThreshold(last') =>
                  active'[last'.magic].step = active[last'.magic].step
            /\ active'[last'.magic].step # active[last'.magic].step =>
                  InStepRange(last'.before, active'[last'.magic].step)]_vars
    /\ []StepPositive

\* C31 (amended): a pass whose candidate is within the threshold leaves the
\* step unchanged; a pass that changes the step leaves it in
\* [base_step * min_step_mult, base_step * max_step_mult] when min_step_mult <=
\* max_step_mult, and at base_step * min_step_mult otherwise; the step stays
\* strictly positive.
C31_AdaptiveStepInOrder ==
    /\ [][passes' # passes =>
            /\ WithinThreshold(last') =>
                  active'[last'.magic].step = active[last'.magic].step
            /\ active'[last'.magic].step # active[last'.magic].step =>
                  /\ last'.new_step # None /\ ~WithinThreshold(last')
                  /\ IF RangeInOrder(last'.before)
                     THEN InStepRange(last'.before, active'[last'.magic].step)
                     ELSE active'[last'.magic].step * last'.before.min_step_mult.den
                            = last'.before.base_step * last'.before.min_step_mult.num]_vars
    /\ []StepPositive

\* A candidate of 40 points took the step of 10 points to the upper end of
\* its range, 30 points.
C31_Witness ==
    /\ last.kind = "active"
    /\ RangeInOrder(last.before)
    /\ last.new_step = Some(P(40))
    /\ last.before.step = P(10)
    /\ active[last.magic].step = P(30)

\* A candidate of 11 points, a tenth above the step, left the step alone.
StepKept ==
    /\ last.kind = "active"
    /\ last.new_step = Some(P(11))
    /\ last.before.step = P(10) /\ active[last.magic].step = P(10)

\* The smoothed ATR between two readings, 11.5 points, rounded to 12 points,
\* became the step.
StepSmoothed ==
    /\ last.kind = "active"
    /\ last.before.last_atr_value # None
    /\ Val(last.before.last_atr_value).num * 1
          = Val(last.before.last_atr_value).den * P(11)
    /\ last.new_step = Some(P(12))
    /\ active[last.magic].step = P(12)

(***************************************************************************)
(* C32: null answers of the gateway.                                       *)
(***************************************************************************)
\* C32: no sync and no pass ends in an exception: whatever the gateway
\* answers, the null result included, the operation completes.
C32_NullNeverRaises ==
    /\ synced.kind = "sync" => ~synced.raised
    /\ last # NoPass => ~last.raised

\* A sync whose cancel got the null result raised out of clear_old_orders:
\* the request was sent, and the order is still in the book.
SyncRaised ==
    /\ synced.kind = "sync" /\ synced.raised
    /\ synced.reqs # <<>>
    /\ synced.reqs[Len(synced.reqs)].op = "remove"
    /\ synced.reqs[Len(synced.reqs)].rc = RC_NONE
    /\ \E j \in DOMAIN orders : orders[j].ticket = synced.reqs[Len(synced.reqs)].ticket

(***************************************************************************)
(* C33: the enabled flag on a reload.                                      *)
(***************************************************************************)
\* C33: after _update_strategy with a configuration entry that provides
\* `enabled`, the engine's enabled flag is the entry's.
C33_EnabledFollowsConfig ==
    (call.fn = "_update_strategy" /\ "enabled" \in DOMAIN call.cfg)
        => call.result.enabled = call.cfg.enabled

\* An enabled engine whose entry was edited to enabled: false is still
\* enabled after the update.
EnabledRestored ==
    /\ call.fn = "_update_strategy"
    /\ "enabled" \in DOMAIN call.cfg /\ ~call.cfg.enabled
    /\ call.before.enabled /\ call.result.enabled

(***************************************************************************)
(* C34: a configuration file that cannot be read.                          *)
(***************************************************************************)
\* C34: a sync on a changed file that cannot be read or parsed leaves the
\* map of engines as it was and sends no cancel.
C34_UnreadableKeepsEngines ==
    (synced.kind = "sync" /\ synced.file = None)
        => (synced.after = synced.before /\ synced.reqs = <<>>)

\* The sync on an unreadable file removed both engines and cancelled their
\* three orders.
UnreadableWiped ==
    /\ synced.kind = "sync" /\ synced.file = None
    /\ DOMAIN synced.before = {1, 2}
    /\ DOMAIN active = {}
    /\ Len(synced.reqs) = 3
    /\ orders = <<>>

(***************************************************************************)
(* C35: the pause deadline.                                                *)
(***************************************************************************)
\* A placement of pass r was answered market closed (10018), which sets the
\* deadline to the time of the pass + 300.
ClosedPlacement(r) ==
    \E i \in DOMAIN r.reqs : r.reqs[i].op = "pending" /\ r.reqs[i].rc = 10018

\* C35: no step takes the pause deadline of an engine back, and a pass in
\* which a placement was answered market closed ends with the deadline no
\* earlier than 300 seconds after the pass.
C35_PauseNeverDecreases ==
    [][/\ \A magic \in DOMAIN active \cap DOMAIN active' :
              active'[magic].pause_until >= active[magic].pause_until
       /\ (passes' # passes /\ ClosedPlacement(last')) =>
              active'[last'.magic].pause_until >= last'.t + 300]_vars

\* The first placement of the pass was answered market closed and the second
\* rejected: the pass ended with a pause of 5 seconds.
PauseShortened ==
    /\ last.kind = "active"
    /\ \E i \in DOMAIN last.reqs :
          /\ last.reqs[i].op = "pending" /\ last.reqs[i].rc = 10018
          /\ i < Len(last.reqs)
          /\ last.reqs[Len(last.reqs)].op = "pending"
          /\ last.reqs[Len(last.reqs)].rc = 10006
    /\ active[last.magic].pause_until = last.t + 5

(***************************************************************************)
(* C36: requests after a disabling or pausing answer.                      *)
(***************************************************************************)
\* The answers that always go to _handle_order_error, which disables the
\* engine (10027, 10013, 10014) or pauses it (10018, 10006).
Handled(rc) == rc \in {10027, 10013, 10014, 10018, 10006}

\* C36: a placement answered with a code that disables or pauses the engine
\* is the last request of its pass.
C36_NothingAfterError ==
    last # NoPass =>
        \A i \in DOMAIN last.reqs :
            (last.reqs[i].op = "pending" /\ Handled(last.reqs[i].rc)) => i = Len(last.reqs)

\* A placement was answered 10027 (auto-trading disabled) and the pass sent
\* the next placement all the same; it ended disabled.
SentWhileDisabled ==
    /\ last.kind = "active"
    /\ \E i \in DOMAIN last.reqs :
          /\ last.reqs[i].op = "pending" /\ last.reqs[i].rc = 10027
          /\ i < Len(last.reqs)
          /\ last.reqs[i + 1].op = "pending"
          /\ last.reqs[i + 1].price # last.reqs[i].price
    /\ ~active[last.magic].enabled

(***************************************************************************)
(* C37: the exposure behind the risk gate.                                 *)
(***************************************************************************)
\* The tickets pass r cancelled: its cancel requests the gateway carried out.
CancelledBy(r) == {r.reqs[i].ticket : i \in {j \in RequestsOf(r.reqs, "remove") : IsDone(r.reqs[j].rc)}}

\* The pending orders of the engine of pass r in all_orders that the pass
\* did not cancel.
StillLive(r, all_orders) ==
    LET Live(o) == /\ o.magic = r.before.magic /\ o.symbol = r.before.symbol
                   /\ o.ticket \notin CancelledBy(r)
    IN  SelectSeq(all_orders, Live)

\* C37: the pending buy volume, pending sell volume and net volume of the
\* exposure an active pass hands to the risk gate are those of the engine's
\* positions and of its pending orders still live after the trim of the pass.
C37_ExposureAfterTrim ==
    [][(passes' # passes /\ last'.kind = "active") =>
          LET live == StillLive(last', orders)
              buys == PendingVolumeOf(live, BUY_LIMIT)
              sells == PendingVolumeOf(live, SELL_LIMIT)
          IN  /\ last'.exposure.pending_buy_vol = buys
              /\ last'.exposure.pending_sell_vol = sells
              /\ last'.exposure.net_vol
                    = (last'.exposure.long_vol + buys) - (last'.exposure.short_vol + sells)]_vars

\* The pass cancelled the buy limit at 955 and still counted its volume: the
\* gate saw 10 pending buy lots where 5 were live.
CancelledCounted ==
    /\ last.kind = "active"
    /\ \E i \in RequestsOf(last.reqs, "remove") :
          /\ last.reqs[i].ticket = 2 /\ IsDone(last.reqs[i].rc)
          /\ last.reqs[i].type = BUY_LIMIT
    /\ last.exposure.pending_buy_vol = 10
    /\ \A j \in DOMAIN orders : orders[j].ticket # 2

(***************************************************************************)
(* C38: out of range with neither stop nor freeze.                         *)
(***************************************************************************)
\* The tickets of the pending limit orders of the engine of pass r in all_orders.
LimitTickets(r, all_orders) ==
    {all_orders[k].ticket : k \in
        {j \in DOMAIN all_orders :
            /\ all_orders[j].magic = r.before.magic
            /\ all_orders[j].symbol = r.before.symbol
            /\ all_orders[j].type \in {BUY_LIMIT, SELL_LIMIT}}}

\* C38: an active pass with the mid price outside [min_p, max_p] (the action
\* is neither stop nor freeze) has no targets, sends a cancel for every
\* pending limit order of its engine in the lists of the cycle, places no
\* order, and leaves the engine enabled.
C38_IgnoreOutOfRange ==
    [][(passes' # passes /\ last'.kind = "active" /\ OutOfRange(last')) =>
          /\ last'.before.out_of_range_action \notin {"stop", "freeze"}
          /\ last'.target_buys = <<>> /\ last'.target_sells = <<>>
          /\ Cancelled(last') = LimitTickets(last', run.all_orders)
          /\ RequestsOf(last'.reqs, "pending") = {}
          /\ active'[last'.magic].enabled]_vars

\* Engine 2, out of range with action ignore, cancelled both its orders and
\* stayed enabled; the order of engine 1 is still in the book.
C38_Witness ==
    /\ last.kind = "active" /\ OutOfRange(last)
    /\ last.before.out_of_range_action = "ignore"
    /\ Cancelled(last) = {2, 3}
    /\ active[last.magic].enabled
    /\ TicketsOf(orders) = {1}

(***************************************************************************)
(* C39: no second hedge tranche.                                           *)
(***************************************************************************)
\* The volume of the positions of the given type the engine of pass r holds
\* in all_positions.
HeldVolume(r, all_positions, type) ==
    LET Own(x) == x.magic = r.before.magic /\ x.symbol = r.before.symbol
    IN  VolumeOf(SelectSeq(all_positions, Own), type)

\* Pass r sent a hedge entry: a market sell.
HedgeEntry(r) ==
    \E j \in RequestsOf(r.reqs, "deal") : r.reqs[j].type = POSITION_SELL

HedgeNotAdded ==
    /\ last.kind = "active" /\ last.hedge.ran
    /\ last.hedge.short_vol > 0
    /\ last.hedge.vol_ok /\ last.hedge.volm_ok
    /\ last.t - last.before.last_hedge_time >= last.before.hedge_cooldown
    /\ ~HedgeEntry(last)

(***************************************************************************)
(* C40: the orders left on the symbol an engine was moved away from.       *)
(***************************************************************************)
\* The pending orders that carry the magic of an active engine on another
\* symbol than the engine's.
OldSymbolOrders ==
    {j \in DOMAIN orders :
        /\ orders[j].magic \in DOMAIN active
        /\ orders[j].symbol # active[orders[j].magic].symbol}

OldSymbolOrdersKept ==
    [][passes' # passes =>
          \A j \in OldSymbolOrders :
              orders[j].magic = last'.before.magic
                  => \E k \in DOMAIN orders' : orders'[k] = orders[j]]_vars

\* The sync moved engine 2 to GBPUSD and sent nothing; its two orders on
\* EURUSD are in the book after two passes.
OldSymbolOrdersLeft ==
    /\ passes = PassBudget(scenario)
    /\ 2 \in DOMAIN active /\ active[2].symbol = "GBPUSD"
    /\ Cardinality(OldSymbolOrders) = 2

====
